---- MODULE Spec2Model ----
(***************************************************************************)
(* A model of the warehouse simulator cpdoldsim: the discrete-event engine *)
(* (simulation_engine.py), the workstation task manager                   *)
(* (workstation_task_manager.py), the wave manager (wave_manager.py) and   *)
(* the exception handler (exception_handler.py), with the overtime paths   *)
(* (staff_schedule_generator.py) and the order deadlines                   *)
(* (order_priority_manager.py, data_manager.py).                           *)
(*                                                                         *)
(* The specifications share the variables:                                 *)
(*   QueueSpec     - the event queue: a binary heap kept by heapq          *)
(*   AssignSpec    - one pass of assign_tasks_to_stations                  *)
(*   Spec          - tasks, stations, waves, exceptions while events run   *)
(*   RunSpec       - the run loop: dispatch, handler errors, end of a run  *)
(*   DispatchSpec  - the task and wave events of a run, in dispatch order  *)
(*   ReceivingSpec - the assignment of the receiving tasks of a day        *)
(*   ExceptionSpec - exceptions of running tasks and their handling        *)
(*   OvertimeSpec  - the daily checks and the overtime sessions            *)
(*   SubWarehouseSpec - one assignment pass over sub-warehouse orders      *)
(*   OrderSpec     - order classification, deadlines and the wave lookup   *)
(*   EndOfDaySpec  - the overtime runs over the end-of-day tasks           *)
(*   LifecycleSpec - initialize_simulation and the runs of one engine      *)
(*   InitializeSpec - the engine alone: initialisations, runs, no orders   *)
(*   TaskStartSpec - the dispatch runs up to the end of the run            *)
(*   OvertimeEndSpec - the overtime runs with exceptions at TASK_START     *)
(***************************************************************************)
EXTENDS Integers, Sequences, FiniteSets, TLC

VARIABLES
    \* the engine's event queue (part 1)
    event_queue,        \* SimulationEngine.event_queue: the heap, as a list
    current_time,       \* SimulationEngine.current_simulation_time
    sim_state,          \* SimulationEngine.simulation_state
    popped,             \* history: the events heappop returned, in order
    n_scheduled,        \* history: how many events were scheduled so far
    \* the workstation task manager (parts 2 and 3)
    tasks,                \* WorkstationTaskManager.tasks: task id -> Task
    workstations,         \* WorkstationTaskManager.workstations: id -> WorkStation
    pass_done,            \* whether assign_tasks_to_stations has returned
    assignment_results,   \* the dict the pass returns
    station_assignments,  \* history: the StationAssignments the packer returned
    gap_placements,       \* history: the placements of the gap-fill stages
    \* the wave manager and the exception handler (part 3)
    waves,                \* WaveManager.waves: wave id -> Wave
    active_waves,         \* WaveManager.active_waves (a list without duplicates)
    active_exceptions,    \* ExceptionHandler.active_exceptions: id -> ExceptionEvent
    n_exceptions,         \* history: how many exceptions were registered so far
    available_leaders,    \* ExceptionHandler.available_leaders
    busy_leaders,         \* ExceptionHandler.busy_leaders (its keys)
    start_scheduled,      \* history: the tasks a TASK_START was scheduled for
    idle_times,           \* history: the times a STATION_BECOME_IDLE was dispatched at
    preempted,            \* history: <<exception, task, station>> of each interruption
    denied,               \* history: the exceptions an allocation failed for
    completion_checked,   \* history: the waves checked with all their tasks COMPLETED
    \* the run loop and its results (part 4)
    should_continue,      \* SimulationEngine.should_continue
    results_errors,       \* len(simulation_results.errors)
    final_statistics,     \* history: how often _calculate_final_statistics ran
    handler_raised,       \* history: how many dispatched handlers raised
    start_raised,         \* history: whether the SIMULATION_START handler raised
    \* overtime (part 8)
    overtime_tasks,             \* WorkstationTaskManager.overtime_tasks: id -> Task
    overtime_sessions,          \* SimulationEngine.overtime_sessions
    current_overtime_schedule,  \* SimulationEngine.current_overtime_schedule
    overtime_rows,              \* history: every row generate_overtime_schedule returned
    overtime_enabled,           \* StaffScheduleGenerator.params['overtime_enabled']
    max_hours_per_day,          \* staff_skill_master: max_hours_per_day of the staff
    \* the route schedule, the order priority manager and the wave lookup (part 10)
    route_schedule,       \* master_data['route_schedule_master'], as cleaned
    processed_orders,     \* history: the orders processed, with their results
    wave_lookups,         \* history: the find_wave_for_partcustid calls and results
    \* the life of an engine: initialisations and runs (part 13)
    simulation_config,    \* SimulationEngine.simulation_config
    rng,                  \* the state of the generator of the module random
    run_history,          \* history: the config and final metrics of each completed run
    n_inits,              \* history: how many times initialize_simulation was called
    n_results             \* how many SimulationResults were created (0: simulation_results is None)

qvars == <<event_queue, current_time, sim_state, popped, n_scheduled>>

avars == <<tasks, workstations, pass_done, assignment_results,
           station_assignments, gap_placements>>

xvars == <<waves, active_waves, active_exceptions, n_exceptions,
           available_leaders, busy_leaders, start_scheduled, idle_times,
           preempted, denied,
           completion_checked>>

rvars == <<should_continue, results_errors, final_statistics, handler_raised,
           start_raised>>

ovars == <<overtime_tasks, overtime_sessions, current_overtime_schedule,
           overtime_rows, overtime_enabled, max_hours_per_day>>

pvars == <<route_schedule, processed_orders, wave_lookups>>

dvars == <<simulation_config, rng, run_history, n_inits, n_results>>

vars == <<qvars, avars, xvars, rvars, ovars, pvars, dvars>>

(***************************************************************************)
(* Part 1: the event queue                                                 *)
(***************************************************************************)

\* Bounds of the queue model.
MaxEvents == 4
MaxTime == 1
MaxDelay == 1
MaxFollow == 1

\* The priorities the engine gives its events (0 is the most urgent).
Priorities == {0, 1}

\* An order that puts the larger priority number first among equal times.
lt_priority_reversed(a, b) ==
    IF a.scheduled_time # b.scheduled_time
       THEN a.scheduled_time < b.scheduled_time
       ELSE a.priority > b.priority

\* An order on the priority first, then on the scheduled time.
lt_priority_first(a, b) ==
    IF a.priority # b.priority
       THEN a.priority < b.priority
       ELSE a.scheduled_time < b.scheduled_time

\* SimulationEvent.__lt__: earlier scheduled_time first, then lower priority;
\* nothing else (no sequence number) takes part in the comparison.
SimulationEvent_lt(a, b) ==
    IF a.scheduled_time # b.scheduled_time
       THEN a.scheduled_time < b.scheduled_time
       ELSE a.priority < b.priority

\* heapq._siftdown(heap, startpos, pos), positions counted from 1:
\* the parent of pos is pos \div 2.
RECURSIVE siftdown_loop(_, _, _, _)
siftdown_loop(heap, startpos, pos, newitem) ==
    IF pos > startpos /\ SimulationEvent_lt(newitem, heap[pos \div 2])
       THEN siftdown_loop([heap EXCEPT ![pos] = heap[pos \div 2]],
                          startpos, pos \div 2, newitem)
       ELSE [heap EXCEPT ![pos] = newitem]

siftdown(heap, startpos, pos) == siftdown_loop(heap, startpos, pos, heap[pos])

\* heapq._siftup(heap, pos): bubble the smaller child up until a leaf is hit
\* (the right child wins unless the left one is strictly smaller), then put
\* the item there and sift it down.
RECURSIVE siftup_loop(_, _)
siftup_loop(heap, pos) ==
    LET endpos   == Len(heap)
        childpos == 2 * pos
        rightpos == childpos + 1
        c == IF rightpos <= endpos
                /\ ~SimulationEvent_lt(heap[childpos], heap[rightpos])
                THEN rightpos ELSE childpos
    IN  IF childpos <= endpos
           THEN siftup_loop([heap EXCEPT ![pos] = heap[c]], c)
           ELSE <<heap, pos>>

siftup(heap, pos) ==
    LET newitem == heap[pos]
        r == siftup_loop(heap, pos)
    IN  siftdown([r[1] EXCEPT ![r[2]] = newitem], pos, r[2])

\* heapq.heappush(heap, item)
heappush(heap, item) == siftdown(Append(heap, item), 1, Len(heap) + 1)

\* heapq.heappop(heap): <<returned item, heap left>>
heappop(heap) ==
    LET lastelt == heap[Len(heap)]
        rest    == SubSeq(heap, 1, Len(heap) - 1)
    IN  IF rest # <<>>
           THEN <<rest[1], siftup([rest EXCEPT ![1] = lastelt], 1)>>
           ELSE <<lastelt, rest>>

\* The event _schedule_event builds; seq and by_handler are history fields
\* (the order of the calls, and whether a handler made the call).
NewEvent(t, p, n, h) ==
    [scheduled_time |-> t, priority |-> p, seq |-> n, by_handler |-> h]

\* _schedule_event, folded over the calls one handler makes: each call
\* is <<delay, priority>> and schedules at now + delay.
RECURSIVE schedule_all(_, _, _, _)
schedule_all(heap, now, calls, n) ==
    IF calls = <<>>
       THEN heap
       ELSE schedule_all(
                heappush(heap, NewEvent(now + calls[1][1], calls[1][2], n + 1, TRUE)),
                now, Tail(calls), n + 1)

\* The calls one handler can make: up to MaxFollow, each at now + delay, delay >= 0.
HandlerCalls ==
    UNION {[1..k -> (0..MaxDelay) \X Priorities] : k \in 0..MaxFollow}

\* SimulationEngine.__init__: an empty queue.
EngineInit ==
    /\ event_queue = <<>>
    /\ current_time = 0
    /\ sim_state = "INITIALIZED"
    /\ popped = <<>>
    /\ n_scheduled = 0

\* _create_initial_events (called by initialize_simulation): one
\* _schedule_event call, before the run starts.
create_initial_event(t, p) ==
    /\ sim_state = "INITIALIZED"
    /\ n_scheduled < MaxEvents
    /\ event_queue' = heappush(event_queue, NewEvent(t, p, n_scheduled + 1, FALSE))
    /\ n_scheduled' = n_scheduled + 1
    /\ UNCHANGED <<current_time, sim_state, popped>>
    /\ UNCHANGED avars
    /\ UNCHANGED xvars
    /\ UNCHANGED rvars
    /\ UNCHANGED ovars
    /\ UNCHANGED pvars
    /\ UNCHANGED dvars

\* run_simulation: the state goes from INITIALIZED to RUNNING, should_continue
\* is set and the loop starts.
run_simulation ==
    /\ sim_state = "INITIALIZED"
    /\ sim_state' = "RUNNING"
    /\ should_continue' = TRUE
    /\ UNCHANGED <<event_queue, current_time, popped, n_scheduled>>
    /\ UNCHANGED avars
    /\ UNCHANGED xvars
    /\ UNCHANGED <<results_errors, final_statistics, handler_raised, start_raised>>
    /\ UNCHANGED ovars
    /\ UNCHANGED pvars
    /\ UNCHANGED dvars

\* _process_next_event: pop, set the clock, run the handler (which schedules
\* its follow-up events at now + delay).
process_next_event(calls) ==
    /\ sim_state = "RUNNING"
    /\ event_queue # <<>>
    /\ n_scheduled + Len(calls) <= MaxEvents
    /\ LET r   == heappop(event_queue)
           now == r[1].scheduled_time
       IN  /\ current_time' = now
           /\ popped' = Append(popped, r[1])
           /\ event_queue' = schedule_all(r[2], now, calls, n_scheduled)
    /\ n_scheduled' = n_scheduled + Len(calls)
    /\ UNCHANGED sim_state
    /\ UNCHANGED avars
    /\ UNCHANGED xvars
    /\ UNCHANGED rvars
    /\ UNCHANGED ovars
    /\ UNCHANGED pvars
    /\ UNCHANGED dvars

QueueNext ==
    \/ \E t \in 0..MaxTime, p \in Priorities : create_initial_event(t, p)
    \/ run_simulation
    \/ \E calls \in HandlerCalls : process_next_event(calls)

\* C2: over a whole run the events leave the queue in non-decreasing
\* scheduled_time, the events the handlers schedule while it runs included.
PopsInTimeOrder ==
    \A i, j \in 1..Len(popped) :
        i < j => popped[i].scheduled_time <= popped[j].scheduled_time

\* A run where an event scheduled by a handler was popped at a later time
\* than an earlier pop and ahead of an event of the initial load.
PopsInTimeOrderWitness ==
    \E i, j, k \in 1..Len(popped) :
        /\ i < j /\ j < k
        /\ popped[j].by_handler /\ ~popped[k].by_handler
        /\ popped[i].scheduled_time < popped[j].scheduled_time
        /\ popped[k].seq < popped[j].seq

\* C3: two events with the same (scheduled_time, priority) leave the queue
\* in the order they were scheduled, whatever the interleaving of
\* _schedule_event calls and pops.
EqualKeysPopInEnqueueOrder ==
    \A i, j \in 1..Len(popped) :
        (/\ i < j
         /\ popped[i].scheduled_time = popped[j].scheduled_time
         /\ popped[i].priority = popped[j].priority)
        => popped[i].seq < popped[j].seq

(***************************************************************************)
(* Part 2: one pass of WorkstationTaskManager.assign_tasks_to_stations     *)
(***************************************************************************)

\* Bound: the number of tasks handed to one pass.
NumTasks == 2

TaskIds == 1..NumTasks

NoStation == "NONE"
NoPartcustid == "NONE"
NoTask == 0
NoWave == "NONE"

\* _initialize_workstations: one workstation_capacity row per floor, the
\* fixed stations (ST<floor>F<nn>) before the temporary ones (ST<floor>T<nn>).
\* Here floor 2 has one fixed and one temporary station, floor 3 one fixed.
\* The dict keeps this order, and it is also the order of the sorted ids.
StationOrder == <<"ST2F01", "ST2T01", "ST3F01">>

Stations == {StationOrder[i] : i \in 1..Len(StationOrder)}

StationFloor(s) == IF s = "ST3F01" THEN 3 ELSE 2

IsFixed(s) == s \in {"ST2F01", "ST3F01"}

Floors == {StationFloor(s) : s \in Stations}

\* WorkStation.available_time: None, the estimated completion of the task
\* last assigned (<<"ESTIMATED", task>>), or a time of the clock (<<"AT", t>>).
NoTime == <<"NONE", 0>>

\* WorkStation(station_id, floor, is_fixed): the dataclass defaults.
NewWorkStation ==
    [status |-> "IDLE", current_task |-> NoTask, reserved_for_exception |-> FALSE,
     available_time |-> NoTime]

\* WaveManager.find_wave_for_partcustid at the time of the pass: the wave a
\* partcustid's delivery schedule gives (None when the partcustid is unknown).
find_wave_for_partcustid(pc) ==
    CASE pc = "PA" -> "WAVE_0900"
      [] pc = "PB" -> "WAVE_0900"
      [] pc = "PC" -> "WAVE_1400"
      [] OTHER -> "NONE"

\* params['max_partcustids_per_station'] (default)
max_partcustids_per_station == 12

\* The fixed window of a floor, in minutes.
Window3 == 30
Window2 == 25
WindowOther == 30

floor_window(floor) ==
    IF floor = 3 THEN Window3 ELSE IF floor = 2 THEN Window2 ELSE WindowOther

\* The estimated durations (minutes) of the tasks of the pass.
Durations == {10, 20}

\* The tasks a pass can be given: P1 shipping tasks of the three partcustids
\* (PA and PB on either floor, PC on floor 2), P2 shipping tasks, and
\* receiving tasks (no partcustid).
NewTask(pc, fl, prio, ty, dur) ==
    [partcustid |-> pc, floor |-> fl, priority_level |-> prio, task_type |-> ty,
     estimated_duration |-> dur, status |-> "PENDING", assigned_station |-> NoStation,
     assigned_wave |-> NoWave, route_code |-> "NONE"]

TaskInputs ==
    {NewTask(pc, fl, "P1", "SHIPPING", d) :
        pc \in {"PA", "PB"}, fl \in Floors, d \in Durations}
    \cup {NewTask("PC", 2, "P1", "SHIPPING", d) : d \in Durations}
    \cup {NewTask(pc, 2, "P2", "SHIPPING", 10) : pc \in {"PA", "PC"}}
    \cup {NewTask(NoPartcustid, 2, "P3", "RECEIVING", 10)}

\* ---- sequence helpers ----

RECURSIVE SumDurations(_, _)
SumDurations(tk, ids) ==
    IF ids = <<>> THEN 0
    ELSE tk[ids[1]].estimated_duration + SumDurations(tk, Tail(ids))

\* The distinct values of a sequence, in the order of first appearance
\* (the key order of a dict filled in that order).
RECURSIVE FirstAppearance(_)
FirstAppearance(seq) ==
    IF seq = <<>> THEN <<>>
    ELSE LET head == FirstAppearance(SubSeq(seq, 1, Len(seq) - 1))
             x == seq[Len(seq)]
         IN  IF \E i \in 1..Len(head) : head[i] = x THEN head ELSE Append(head, x)

\* list.sort(key = total_workload_minutes, reverse = True): stable.
RECURSIVE sort_by_workload_desc(_)
sort_by_workload_desc(gs) ==
    IF gs = <<>> THEN <<>>
    ELSE LET head == sort_by_workload_desc(SubSeq(gs, 1, Len(gs) - 1))
             x == gs[Len(gs)]
             k == Cardinality({i \in 1..Len(head) :
                      head[i].total_workload_minutes >= x.total_workload_minutes})
         IN  SubSeq(head, 1, k) \o <<x>> \o SubSeq(head, k + 1, Len(head))

\* -(-a // b)
CeilDiv(a, b) == (a + b - 1) \div b

Max(a, b) == IF a >= b THEN a ELSE b

\* ---- grouping ----

\* _determine_task_wave_id
determine_task_wave_id(t) ==
    IF t.partcustid = NoPartcustid THEN "WAVE_DEFAULT"
    ELSE LET wave_id == find_wave_for_partcustid(t.partcustid)
         IN  IF wave_id # "NONE" THEN wave_id ELSE "WAVE_DEFAULT"

\* _group_tasks_by_type_and_wave, is_sub_warehouse: the route is a
\* sub-warehouse route, or R15 with partcustid SDTC, or R16 with SDHN.
is_sub_warehouse(t) ==
    \/ t.route_code \in {"SDTC", "SDHN"}
    \/ (t.route_code = "R15" /\ t.partcustid = "SDTC")
    \/ (t.route_code = "R16" /\ t.partcustid = "SDHN")

\* _group_tasks_by_type_and_wave: the sub-warehouse shipping tasks go to
\* 'sub_warehouse_shipping', the other shipping tasks to their wave's list,
\* the receiving tasks to the receiving lists.
sub_warehouse_shipping(tk) ==
    SelectSeq([i \in TaskIds |-> i],
              LAMBDA i : tk[i].task_type = "SHIPPING" /\ is_sub_warehouse(tk[i]))

shipping_ids(tk) ==
    SelectSeq([i \in TaskIds |-> i],
              LAMBDA i : tk[i].task_type = "SHIPPING" /\ ~is_sub_warehouse(tk[i]))

receiving_ids(tk) == SelectSeq([i \in TaskIds |-> i], LAMBDA i : tk[i].task_type = "RECEIVING")

shipping_waves(tk) ==
    LET ids == shipping_ids(tk)
    IN  FirstAppearance([i \in 1..Len(ids) |-> determine_task_wave_id(tk[ids[i]])])

wave_task_ids(tk, wave_id, prio) ==
    SelectSeq(shipping_ids(tk),
              LAMBDA i : /\ determine_task_wave_id(tk[i]) = wave_id
                         /\ tk[i].priority_level = prio)

\* The key _group_tasks_by_partcustid files a task under.
partcustid_key_per_task(tk, i) == <<"NO_PARTCUSTID", i>>

partcustid_key(tk, i) ==
    IF tk[i].partcustid # NoPartcustid
       THEN <<tk[i].partcustid, NoTask>>
       ELSE <<"NO_PARTCUSTID", i>>

\* _group_tasks_by_partcustid: one PartcustidGroup per key, largest first.
group_tasks_by_partcustid(tk, ids) ==
    LET keys == FirstAppearance([i \in 1..Len(ids) |-> partcustid_key(tk, ids[i])])
        group(k) ==
            LET members == SelectSeq(ids, LAMBDA i : partcustid_key(tk, i) = k)
            IN  [partcustid |-> k, tasks |-> members,
                 total_workload_minutes |-> SumDurations(tk, members)]
    IN  sort_by_workload_desc([n \in 1..Len(keys) |-> group(keys[n])])

\* ---- the P1 stage ----

\* _check_p1_wave_feasibility: per floor of the wave's tasks, the stations
\* needed (by partcustid count and by time) against the stations of the floor.
check_p1_wave_feasibility(tk, ids) ==
    LET idset == {ids[i] : i \in 1..Len(ids)}
        floors == {tk[i].floor : i \in idset}
        on(floor) == SelectSeq(ids, LAMBDA i : tk[i].floor = floor)
        partcustids(floor) ==
            {tk[i].partcustid : i \in {j \in idset : tk[j].floor = floor}} \ {NoPartcustid}
        stations_needed_by_partcustids(floor) ==
            Max(1, CeilDiv(Cardinality(partcustids(floor)), max_partcustids_per_station))
        stations_needed_by_time(floor) ==
            Max(1, CeilDiv(SumDurations(tk, on(floor)), floor_window(floor)))
        required_stations(floor) ==
            Max(stations_needed_by_partcustids(floor), stations_needed_by_time(floor))
        max_floor_stations(floor) ==
            Cardinality({s \in Stations : StationFloor(s) = floor})
    IN  \A floor \in floors : required_stations(floor) <= max_floor_stations(floor)

\* _find_next_available_station_by_floor: among the floor's stations that are
\* neither taken in this call nor reserved for an exception, in id order: the
\* first fixed IDLE one, else the first fixed one, else the first one.
find_next_ignoring_reservation(ws, assigned, target_floor) ==
    LET floor_stations ==
            SelectSeq(StationOrder,
                      LAMBDA s : StationFloor(s) = target_floor /\ s \notin assigned)
        fixed_idle == SelectSeq(floor_stations,
                                LAMBDA s : IsFixed(s) /\ ws[s].status = "IDLE")
        fixed == SelectSeq(floor_stations, IsFixed)
    IN  IF floor_stations = <<>> THEN NoStation
        ELSE IF fixed_idle # <<>> THEN fixed_idle[1]
        ELSE IF fixed # <<>> THEN fixed[1]
        ELSE floor_stations[1]

find_next_available_station_by_floor(ws, assigned, target_floor) ==
    LET floor_stations ==
            SelectSeq(StationOrder,
                      LAMBDA s : /\ StationFloor(s) = target_floor
                                 /\ s \notin assigned
                                 /\ ~ws[s].reserved_for_exception)
        fixed_idle == SelectSeq(floor_stations,
                                LAMBDA s : IsFixed(s) /\ ws[s].status = "IDLE")
        fixed == SelectSeq(floor_stations, IsFixed)
    IN  IF floor_stations = <<>> THEN NoStation
        ELSE IF fixed_idle # <<>> THEN fixed_idle[1]
        ELSE IF fixed # <<>> THEN fixed[1]
        ELSE floor_stations[1]

RECURSIVE SumWorkload(_)
SumWorkload(groups) ==
    IF groups = <<>> THEN 0
    ELSE groups[1].total_workload_minutes + SumWorkload(Tail(groups))

\* StationAssignment(station_id, partcustid_groups, ...): __post_init__ sums.
NewStationAssignment(s, groups) ==
    [station_id |-> s,
     partcustid_groups |-> groups,
     total_workload_minutes |-> SumWorkload(groups),
     total_partcustids |-> Len(groups)]

\* current_assignment = None
NoAssignment == NewStationAssignment(NoStation, <<>>)

\* One turn of the packer's loop over a floor's groups. st is
\* [assignments, current, used]: the list built so far, current_assignment,
\* and the assigned_stations set the caller handed in.
pack_group(ws, st, g, floor) ==
    LET cur == st.current
        can_fit_current ==
            /\ cur # NoAssignment
            /\ cur.total_partcustids + 1 <= max_partcustids_per_station
            /\ cur.total_workload_minutes + g.total_workload_minutes <= floor_window(floor)
        flushed == IF cur # NoAssignment THEN Append(st.assignments, cur)
                   ELSE st.assignments
        available_station == find_next_available_station_by_floor(ws, st.used, floor)
    IN  IF can_fit_current
           THEN [st EXCEPT !.current =
                    NewStationAssignment(cur.station_id, Append(cur.partcustid_groups, g))]
        ELSE IF available_station # NoStation
           THEN [assignments |-> flushed,
                 current |-> NewStationAssignment(available_station, <<g>>),
                 used |-> st.used \cup {available_station}]
        ELSE [assignments |-> flushed, current |-> NoAssignment, used |-> st.used]

RECURSIVE pack_floor(_, _, _, _)
pack_floor(ws, st, groups, floor) ==
    IF groups = <<>>
       THEN [assignments |-> IF st.current # NoAssignment
                                THEN Append(st.assignments, st.current)
                                ELSE st.assignments,
             current |-> NoAssignment,
             used |-> st.used]
       ELSE pack_floor(ws, pack_group(ws, st, groups[1], floor), Tail(groups), floor)

\* _assign_partcustids_to_stations_with_fixed_time: the groups are filed by
\* the floor of their first task, and each floor is packed in turn.
RECURSIVE pack_floors(_, _, _, _, _)
pack_floors(tk, ws, st, groups, floors) ==
    IF floors = <<>> THEN st
    ELSE pack_floors(tk, ws,
             pack_floor(ws, st,
                 SelectSeq(groups, LAMBDA g : tk[g.tasks[1]].floor = floors[1]),
                 floors[1]),
             groups, Tail(floors))

assign_partcustids_to_stations_with_fixed_time(tk, ws, groups, assigned) ==
    pack_floors(tk, ws,
        [assignments |-> <<>>, current |-> NoAssignment, used |-> assigned],
        groups,
        FirstAppearance([n \in 1..Len(groups) |-> tk[groups[n].tasks[1]].floor]))

\* _assign_single_task_to_station, on the manager state m (its tasks and
\* workstations): the task becomes ASSIGNED on the station; an IDLE station
\* starts up, a STARTING_UP one stays so, any other becomes BUSY; the
\* station's current_task is set only when it has none.
assign_single_task_to_station(m, i, s) ==
    LET station == m.workstations[s]
        status == IF station.status \in {"IDLE", "STARTING_UP"}
                     THEN "STARTING_UP" ELSE "BUSY"
    IN  [m EXCEPT
            !.tasks[i].assigned_station = s,
            !.tasks[i].status = "ASSIGNED",
            !.workstations[s].current_task =
                IF station.current_task = NoTask THEN i ELSE station.current_task,
            !.workstations[s].available_time = <<"ESTIMATED", i>>,
            !.workstations[s].status = status]

RECURSIVE assign_all(_, _, _)
assign_all(m, ids, s) ==
    IF ids = <<>> THEN m
    ELSE assign_all(assign_single_task_to_station(m, ids[1], s), Tail(ids), s)

\* The tasks of a StationAssignment, group after group.
RECURSIVE assignment_tasks(_)
assignment_tasks(groups) ==
    IF groups = <<>> THEN <<>>
    ELSE groups[1].tasks \o assignment_tasks(Tail(groups))

\* _find_available_staff_for_station, then _assign_idle_staff_to_station: a
\* staff_schedule row of the station, or of any station of its floor.
has_staff(staff_schedule, s) ==
    \E r \in staff_schedule : StationFloor(r) = StationFloor(s)

\* _execute_station_assignment and the bookkeeping of _assign_p1_wave_tasks
\* around it: without staff nothing is assigned and the tasks are reported
\* unassigned; with staff every task of every group goes to the station.
execute_station_assignment(m, wave_id, a, staff_schedule) ==
    LET ids == assignment_tasks(a.partcustid_groups)
        ok == has_staff(staff_schedule, a.station_id)
        logged == [m EXCEPT !.station_assignments =
                      Append(@, [wave |-> wave_id, assignment |-> a, executed |-> ok])]
    IN  IF ok
           THEN [assign_all(logged, ids, a.station_id) EXCEPT !.assigned = @ \o ids]
           ELSE [logged EXCEPT !.unassigned = @ \o ids]

RECURSIVE execute_all(_, _, _, _)
execute_all(m, wave_id, assignments, staff_schedule) ==
    IF assignments = <<>> THEN m
    ELSE execute_all(execute_station_assignment(m, wave_id, assignments[1], staff_schedule),
                     wave_id, Tail(assignments), staff_schedule)

\* _assign_p1_wave_tasks for the P1 tasks of one wave, and the caller's
\* assigned_stations.update(p1_result['used_stations']). The packer starts
\* from the call's own, empty used_stations set. An infeasible wave's tasks
\* are appended to 'unassigned'; nothing is appended to 'overtime_required'.
assign_p1_wave_tasks(m, wave_id, ids, staff_schedule) ==
    IF ids = <<>> THEN m
    ELSE IF ~check_p1_wave_feasibility(m.tasks, ids)
       THEN [m EXCEPT !.unassigned = @ \o ids, !.infeasible = @ \cup {wave_id}]
    ELSE LET packed == assign_partcustids_to_stations_with_fixed_time(
                           m.tasks, m.workstations,
                           group_tasks_by_partcustid(m.tasks, ids), {})
             done == execute_all(m, wave_id, packed.assignments, staff_schedule)
         IN  [done EXCEPT !.assigned_stations = @ \cup packed.used]

\* ---- the gap-fill stages ----

\* _get_available_gap_stations, in the stations' dict order: not used in
\* this pass, not reserved for an exception, IDLE or STARTING_UP, and with
\* station_availability_tracker[s] <= current_time. The tracker holds the
\* wall-clock time of the manager's construction for every station and is
\* never updated, so tracker_open (one input of the pass) decides it.
gap_stations_ignoring_reservation(ws, used_stations, tracker_open) ==
    SelectSeq(StationOrder,
              LAMBDA s : /\ s \notin used_stations
                         /\ ws[s].status \in {"IDLE", "STARTING_UP"}
                         /\ tracker_open)

get_available_gap_stations(ws, used_stations, tracker_open) ==
    SelectSeq(StationOrder,
              LAMBDA s : /\ s \notin used_stations
                         /\ ~ws[s].reserved_for_exception
                         /\ ws[s].status \in {"IDLE", "STARTING_UP"}
                         /\ tracker_open)

\* sorted(tasks, key = (floor, -quantity)): stable; the tasks of the model
\* have equal quantities.
RECURSIVE sort_by_floor(_, _)
sort_by_floor(tk, ids) ==
    IF ids = <<>> THEN <<>>
    ELSE LET head == sort_by_floor(tk, SubSeq(ids, 1, Len(ids) - 1))
             x == ids[Len(ids)]
             k == Cardinality({n \in 1..Len(head) : tk[head[n]].floor <= tk[x].floor})
         IN  SubSeq(head, 1, k) \o <<x>> \o SubSeq(head, k + 1, Len(head))

\* The loop both gap-fill stages share: each task takes the first gap station
\* of its floor that this call has not used yet, else it is unassigned.
\* g is [m, used]: the manager state and the call's result['used_stations'].
RECURSIVE gap_fill(_, _, _, _, _)
gap_fill(g, stage, wave_id, gap_list, ids) ==
    IF ids = <<>> THEN g
    ELSE LET i == ids[1]
             floor_gap_stations ==
                 SelectSeq(gap_list,
                           LAMBDA s : /\ StationFloor(s) = g.m.tasks[i].floor
                                      /\ s \notin g.used)
             station_id == floor_gap_stations[1]
             placed == [assign_single_task_to_station(g.m, i, station_id) EXCEPT
                           !.assigned = Append(@, i),
                           !.gap_placements =
                               Append(@, [stage |-> stage, wave |-> wave_id,
                                          station_id |-> station_id, task |-> i])]
         IN  IF floor_gap_stations # <<>>
                THEN gap_fill([m |-> placed, used |-> g.used \cup {station_id}],
                              stage, wave_id, gap_list, Tail(ids))
                ELSE gap_fill([g EXCEPT !.m.unassigned = Append(@, i)],
                              stage, wave_id, gap_list, Tail(ids))

\* _assign_p2_gap_tasks and the caller's assigned_stations.update(...)
assign_p2_gap_tasks(m, wave_id, ids, tracker_open) ==
    IF ids = <<>> THEN m
    ELSE LET available_gap_stations ==
                 get_available_gap_stations(m.workstations, m.assigned_stations, tracker_open)
             g == gap_fill([m |-> m, used |-> {}], "P2", wave_id,
                           available_gap_stations, sort_by_floor(m.tasks, ids))
         IN  IF available_gap_stations = <<>>
                THEN [m EXCEPT !.unassigned = @ \o ids]
                ELSE [g.m EXCEPT !.assigned_stations = @ \cup g.used]

\* _calculate_total_gap_time: 30 minutes per gap station.
GapMinutesPerStation == 30

\* Below this much gap time receiving goes before sub-warehouse shipping.
ReceivingFirstBelow == 60

\* _prioritize_receiving_over_subwarehouse (the later of the two definitions
\* of that name): receiving tasks and P3 shipping tasks, receiving first
\* when the gap time is short.
prioritize_receiving_over_subwarehouse(tk, ids, available_gap_time) ==
    LET receiving_tasks == SelectSeq(ids, LAMBDA i : tk[i].task_type = "RECEIVING")
        subwarehouse_tasks ==
            SelectSeq(ids, LAMBDA i : /\ tk[i].task_type = "SHIPPING"
                                      /\ tk[i].priority_level = "P3")
    IN  IF available_gap_time < ReceivingFirstBelow
           THEN receiving_tasks \o subwarehouse_tasks
           ELSE subwarehouse_tasks \o receiving_tasks

\* _assign_p3_and_receiving_gap_tasks; update_used tells whether the caller
\* adds the call's used_stations to assigned_stations (it does for the P3
\* tasks of a wave, not for the receiving tasks at the end of the pass).
assign_p3_and_receiving_gap_tasks(m, stage, wave_id, ids, tracker_open, update_used) ==
    IF ids = <<>> THEN m
    ELSE LET remaining_gap_stations ==
                 get_available_gap_stations(m.workstations, m.assigned_stations, tracker_open)
             total_gap_time == Len(remaining_gap_stations) * GapMinutesPerStation
             g == gap_fill([m |-> m, used |-> {}], stage, wave_id, remaining_gap_stations,
                     prioritize_receiving_over_subwarehouse(m.tasks, ids, total_gap_time))
         IN  IF update_used THEN [g.m EXCEPT !.assigned_stations = @ \cup g.used] ELSE g.m

\* ---- the pass ----

\* The body of the loop over task_groups['shipping_waves']: the wave's P1
\* tasks, then its P2 tasks, then its P3 tasks.
RECURSIVE assign_waves(_, _, _, _)
assign_waves(m, wave_ids, staff_schedule, tracker_open) ==
    IF wave_ids = <<>> THEN m
    ELSE LET w == wave_ids[1]
             p1 == assign_p1_wave_tasks(m, w, wave_task_ids(m.tasks, w, "P1"), staff_schedule)
             p2 == assign_p2_gap_tasks(p1, w, wave_task_ids(m.tasks, w, "P2"), tracker_open)
             p3 == assign_p3_and_receiving_gap_tasks(
                       p2, "P3", w, wave_task_ids(m.tasks, w, "P3"), tracker_open, TRUE)
         IN  assign_waves(p3, Tail(wave_ids), staff_schedule, tracker_open)

\* The <<staff_schedule, tracker_open>> a pass can be given: the stations
\* that have a staff row, and whether the tracker's times have passed.
PassInputs == {<<Stations, TRUE>>, <<Stations, FALSE>>, <<{"ST2F01"}, TRUE>>}

\* WorkstationTaskManager.__init__, with the tasks of the day created.
ManagerInit(created) ==
    /\ tasks \in created
    /\ workstations = [s \in Stations |-> NewWorkStation]
    /\ pass_done = FALSE
    /\ assignment_results =
           [assigned |-> <<>>, unassigned |-> <<>>, errors |-> <<>>,
            overtime_required |-> <<>>, infeasible |-> {}]
    /\ station_assignments = <<>>
    /\ gap_placements = <<>>

\* The waves of the day (create_waves_from_schedule): those the partcustids'
\* delivery schedules give.
WaveIds == {"WAVE_0900", "WAVE_1400"}

\* Wave(...): status PLANNED; task_ids holds the tasks whose assigned_wave is
\* the wave (assign_tasks_to_waves sets the two together).
NewWave(w) ==
    [status |-> "PLANNED",
     task_ids |-> {i \in DOMAIN tasks : tasks[i].assigned_wave = w}]

\* WaveManager.__init__ followed by the creation of the day's waves.
WaveManagerInit ==
    /\ waves = [w \in WaveIds |-> NewWave(w)]
    /\ active_waves = {}
    /\ completion_checked = {}

\* params['leader_count'] (default); leader ids start at FirstLeader.
leader_count == 2
FirstLeader == 901

\* ExceptionHandler.__init__ and _initialize_leaders.
ExceptionHandlerInit ==
    /\ active_exceptions = <<>>
    /\ n_exceptions = 0
    /\ available_leaders = [k \in 1..leader_count |-> FirstLeader + k - 1]
    /\ busy_leaders = {}
    /\ start_scheduled = {}
    /\ idle_times = {}
    /\ preempted = {}
    /\ denied = {}

\* staff_info.get('max_hours_per_day', 12.0), in hours
default_max_hours_per_day == 12

\* No overtime yet (overtime_tasks = {}, overtime_sessions = [],
\* current_overtime_schedule = None), with the overtime parameter and the
\* staff's daily limit (in hours) drawn from the given sets.
OvertimeStateInit(enabled, max_hours) ==
    /\ overtime_tasks = <<>>
    /\ overtime_sessions = <<>>
    /\ current_overtime_schedule = <<>>
    /\ overtime_rows = <<>>
    /\ overtime_enabled \in enabled
    /\ max_hours_per_day \in max_hours

\* No initialize_simulation yet: simulation_config is None; the generator of
\* the module random starts in a state the process got from the system.
NoConfig == [start_date |-> 0, end_date |-> 0, random_seed |-> 0, set |-> FALSE]

LifecycleStateInit(rng_states) ==
    /\ simulation_config = NoConfig
    /\ rng \in rng_states
    /\ run_history = <<>>
    /\ n_inits = 0
    /\ n_results = 0

\* route_schedule_master that is not loaded (None) or has no rows
NoSchedule == <<>>

\* The route schedule the managers are constructed with, no order processed
\* and no wave looked up yet.
OrderStateInit(schedules) ==
    /\ route_schedule \in schedules
    /\ processed_orders = <<>>
    /\ wave_lookups = <<>>

\* The engine's run control and SimulationResults as constructed.
ResultsInit ==
    /\ should_continue = TRUE
    /\ results_errors = 0
    /\ final_statistics = 0
    /\ handler_raised = 0
    /\ start_raised = FALSE

AssignInit ==
    /\ EngineInit
    /\ ManagerInit([TaskIds -> TaskInputs])
    /\ WaveManagerInit
    /\ ExceptionHandlerInit
    /\ ResultsInit
    /\ OvertimeStateInit({"Y"}, {default_max_hours_per_day})
    /\ OrderStateInit({NoSchedule})
    /\ LifecycleStateInit({0})

\* The queue model runs with a manager that holds no task.
QueueInit ==
    /\ EngineInit
    /\ ManagerInit({<<>>})
    /\ WaveManagerInit
    /\ ExceptionHandlerInit
    /\ ResultsInit
    /\ OvertimeStateInit({"Y"}, {default_max_hours_per_day})
    /\ OrderStateInit({NoSchedule})
    /\ LifecycleStateInit({0})

QueueSpec == QueueInit /\ [][QueueNext]_vars

\* reserve_station_for_exception, called by the exception handler before the
\* pass: only an IDLE station can be reserved.
reserve_station_for_exception(s) ==
    /\ ~pass_done
    /\ workstations[s].status = "IDLE"
    /\ workstations' = [workstations EXCEPT ![s].status = "RESERVED",
                                            ![s].reserved_for_exception = TRUE]
    /\ UNCHANGED <<tasks, pass_done, assignment_results, station_assignments,
                   gap_placements>>
    /\ UNCHANGED qvars
    /\ UNCHANGED xvars
    /\ UNCHANGED rvars
    /\ UNCHANGED ovars
    /\ UNCHANGED pvars
    /\ UNCHANGED dvars

\* assign_tasks_to_stations(tasks, staff_schedule, current_time): the waves
\* in the order their first task appears, then the receiving tasks.
assign_tasks_to_stations(staff_schedule, tracker_open) ==
    /\ ~pass_done
    /\ LET m0 == [tasks |-> tasks, workstations |-> workstations,
                  assigned |-> <<>>, unassigned |-> <<>>, errors |-> <<>>,
                  overtime_required |-> <<>>, infeasible |-> {},
                  assigned_stations |-> {},
                  station_assignments |-> <<>>, gap_placements |-> <<>>]
           m1 == assign_waves(m0, shipping_waves(tasks), staff_schedule, tracker_open)
           m2 == assign_p3_and_receiving_gap_tasks(
                     m1, "OTHER", "NONE", receiving_ids(tasks), tracker_open, FALSE)
       IN  /\ tasks' = m2.tasks
           /\ workstations' = m2.workstations
           /\ assignment_results' =
                  [assigned |-> m2.assigned, unassigned |-> m2.unassigned,
                   errors |-> m2.errors, overtime_required |-> m2.overtime_required,
                   infeasible |-> m2.infeasible]
           /\ station_assignments' = m2.station_assignments
           /\ gap_placements' = m2.gap_placements
    /\ pass_done' = TRUE
    /\ UNCHANGED qvars
    /\ UNCHANGED xvars
    /\ UNCHANGED rvars
    /\ UNCHANGED ovars
    /\ UNCHANGED pvars
    /\ UNCHANGED dvars

AssignNext ==
    \/ \E s \in Stations : reserve_station_for_exception(s)
    \/ \E in \in PassInputs : assign_tasks_to_stations(in[1], in[2])

AssignSpec == AssignInit /\ [][AssignNext]_vars

\* ---- what the pass produced ----

\* The StationAssignments that were executed (staff was found).
Executed == {n \in 1..Len(station_assignments) : station_assignments[n].executed}

\* The tasks the packer placed: those of the executed StationAssignments.
PackerPlaced ==
    UNION {{assignment_tasks(station_assignments[n].assignment.partcustid_groups)[k] :
              k \in 1..Len(assignment_tasks(
                               station_assignments[n].assignment.partcustid_groups))} :
           n \in Executed}

WorkloadWithinWindow ==
    \A n \in 1..Len(station_assignments) :
        LET a == station_assignments[n].assignment
        IN  a.total_workload_minutes <= floor_window(StationFloor(a.station_id))

\* C8: within one pass a station appears in at most one StationAssignment:
\* it is not given to two waves, nor to a wave and to a gap-fill stage.
StationInOnePlacement ==
    /\ \A n, k \in 1..Len(station_assignments) :
           n # k => station_assignments[n].assignment.station_id
                        # station_assignments[k].assignment.station_id
    /\ \A n \in 1..Len(station_assignments), k \in 1..Len(gap_placements) :
           station_assignments[n].assignment.station_id # gap_placements[k].station_id

\* C9: a station reserved for an exception (status RESERVED,
\* reserved_for_exception = true) is never selected by the packer nor by a
\* gap-fill stage.
ReservedStationNeverSelected ==
    /\ \A n \in 1..Len(station_assignments) :
           ~workstations[station_assignments[n].assignment.station_id].reserved_for_exception
    /\ \A k \in 1..Len(gap_placements) :
           ~workstations[gap_placements[k].station_id].reserved_for_exception

\* A pass that ran while the first fixed station of a floor was reserved:
\* the packer and a gap-fill stage both went to another station of the floor.
ReservedStationNeverSelectedWitness ==
    /\ pass_done
    /\ workstations["ST2F01"].reserved_for_exception
    /\ workstations["ST2F01"].status = "RESERVED"
    /\ \E n \in 1..Len(station_assignments) :
           StationFloor(station_assignments[n].assignment.station_id) = 2
    /\ \E k \in 1..Len(gap_placements) : StationFloor(gap_placements[k].station_id) = 2

\* C10: when the feasibility check fails for a wave, every task of the wave
\* is routed to the overtime requirements in the same pass, and no
\* StationAssignment is produced for the wave.
InfeasibleWaveGoesToOvertime ==
    pass_done =>
        \A w \in assignment_results.infeasible :
            /\ \A n \in 1..Len(station_assignments) : station_assignments[n].wave # w
            /\ \A i \in TaskIds :
                   (/\ tasks[i].task_type = "SHIPPING"
                    /\ tasks[i].priority_level = "P1"
                    /\ determine_task_wave_id(tasks[i]) = w)
                   => \E k \in 1..Len(assignment_results.overtime_required) :
                          assignment_results.overtime_required[k] = i

(***************************************************************************)
(* Part 3: tasks, stations, waves and exceptions while events run          *)
(***************************************************************************)

\* The priorities and delays the engine's handlers schedule with.
TaskStartPriority == 5
TaskCompletePriority == 3
WaveCheckPriority == 2
StationIdlePriority == 4
ExceptionDetectedPriority == 1
WaveCheckDelay == 1

\* The delay of a TASK_START after the assignment, and the actual duration
\* calculate_actual_duration_with_randomness gives a task (both random).
\* Time in this part counts in ticks: the one-second delay of the wave
\* completion check is one tick, and a task runs for longer than that.
StartDelays == {0, 1}
ActualDurations == {2, 3}

\* _schedule_event with an event type and its event_data.
TypedEvent(ty, task_id, wave_id, t, p, n) ==
    [scheduled_time |-> t, priority |-> p, seq |-> n, by_handler |-> TRUE,
     event_type |-> ty, task_id |-> task_id, wave_id |-> wave_id]

\* The tasks of a day of the run: P1 shipping tasks of partcustid PA, which
\* belong to PA's wave, and receiving tasks, which belong to none.
RunTaskInputs ==
    {[NewTask("PA", 2, "P1", "SHIPPING", 10)
         EXCEPT !.assigned_wave = find_wave_for_partcustid("PA")],
     NewTask(NoPartcustid, 2, "P3", "RECEIVING", 10)}

Init ==
    /\ EngineInit
    /\ ManagerInit([TaskIds -> RunTaskInputs])
    /\ WaveManagerInit
    /\ ExceptionHandlerInit
    /\ ResultsInit
    /\ OvertimeStateInit({"Y"}, {default_max_hours_per_day})
    /\ OrderStateInit({NoSchedule})
    /\ LifecycleStateInit({0})

\* ---- the exception handler ----

ExceptionPriorities == {"HIGH", "MEDIUM"}

\* What detect_exceptions returns at a TASK_START: nothing, an exception of
\* the task (_check_task_exceptions), or a system exception
\* (_generate_random_exceptions), each with the priority of its type.
DetectionOutcomes ==
    {<<"NONE", "MEDIUM">>}
    \cup {<<"TASK", p>> : p \in ExceptionPriorities}
    \cup {<<"SYSTEM", p>> : p \in ExceptionPriorities}

\* ExceptionEvent(...) as _check_task_exceptions and
\* _generate_random_exceptions build it: a task exception carries the task and
\* its assigned station, a system exception carries neither.
NewException(kind, prio, tk, i, now) ==
    [priority |-> prio, status |-> "DETECTED",
     task_id |-> IF kind = "TASK" THEN i ELSE NoTask,
     station_id |-> IF kind = "TASK" THEN tk[i].assigned_station ELSE NoStation,
     detection_time |-> now, start_handling_time |-> NoTime,
     assigned_leader |-> 0, handling_station |-> NoStation]

\* params['allow_task_interruption'] and params['task_interruption_allowed']
allow_task_interruption == "Y"
task_interruption_allowed == "Y"

\* _find_suitable_station_for_exception: the exception's own station when it
\* is not reserved, then the idle stations, then (CRITICAL or HIGH only) the
\* busy ones; the first of the list.
find_suitable_station_for_exception(ws, exc) ==
    LET own == IF /\ exc.task_id # NoTask
                  /\ exc.station_id # NoStation
                  /\ ~ws[exc.station_id].reserved_for_exception
                  THEN <<exc.station_id>> ELSE <<>>
        free(st) == SelectSeq(StationOrder,
                       LAMBDA s : /\ ws[s].status = st
                                  /\ ~ws[s].reserved_for_exception
                                  /\ (own = <<>> \/ s # own[1]))
        busy == IF exc.priority \in {"CRITICAL", "HIGH"} THEN free("BUSY") ELSE <<>>
        priority_order == own \o free("IDLE") \o busy
    IN  IF priority_order = <<>> THEN NoStation ELSE priority_order[1]

\* interrupt_current_task: the station's current task, when IN_PROGRESS, is
\* PAUSED and the station RESERVED. Returns <<success, tasks, workstations>>.
interrupt_current_task(tk, ws, s) ==
    LET c == ws[s].current_task
    IN  IF task_interruption_allowed # "Y" THEN <<FALSE, tk, ws>>
        ELSE IF c = NoTask \/ tk[c].status # "IN_PROGRESS" THEN <<FALSE, tk, ws>>
        ELSE <<TRUE,
               [tk EXCEPT ![c].status = "PAUSED"],
               [ws EXCEPT ![s].status = "RESERVED",
                          ![s].reserved_for_exception = TRUE]>>

\* WorkstationTaskManager.reserve_station_for_exception as the exception
\* handler calls it: only an IDLE station is reserved. Returns
\* <<success, workstations>>.
reserve_station(ws, s) ==
    IF ws[s].status # "IDLE" THEN <<FALSE, ws>>
    ELSE <<TRUE, [ws EXCEPT ![s].status = "RESERVED",
                            ![s].reserved_for_exception = TRUE]>>

\* ---- the engine's handlers ----

\* WorkstationTaskManager.complete_task: only an IN_PROGRESS task completes;
\* its station loses its current task and becomes IDLE. Returns
\* <<success, tasks, workstations>>.
complete_task(tk, ws, i, now) ==
    IF tk[i].status # "IN_PROGRESS" THEN <<FALSE, tk, ws>>
    ELSE <<TRUE,
           [tk EXCEPT ![i].status = "COMPLETED"],
           IF tk[i].assigned_station = NoStation THEN ws
           ELSE [ws EXCEPT ![tk[i].assigned_station].current_task = NoTask,
                           ![tk[i].assigned_station].status = "IDLE",
                           ![tk[i].assigned_station].available_time = <<"AT", now>>]>>

\* WaveManager.check_wave_actual_completion: an IN_PROGRESS wave whose tasks
\* are all COMPLETED becomes COMPLETED and leaves the active waves. Returns
\* <<completed, waves, active_waves>>.
check_wave_actual_completion(wv, active, tk, w) ==
    IF wv[w].status # "IN_PROGRESS" THEN <<FALSE, wv, active>>
    ELSE LET incomplete_tasks ==
                 {i \in wv[w].task_ids \cap DOMAIN tk : tk[i].status # "COMPLETED"}
         IN  IF incomplete_tasks = {}
                THEN <<TRUE, [wv EXCEPT ![w].status = "COMPLETED"], active \ {w}>>
                ELSE <<FALSE, wv, active>>

\* _handle_task_start: detect_exceptions registers what it detects and an
\* EXCEPTION_DETECTED event is scheduled; with no exception the task starts
\* (_start_task_execution): it becomes IN_PROGRESS and its TASK_COMPLETE is
\* scheduled. The station update that follows names StationStatus, which the
\* engine does not import, so the handler ends there.
handle_task_start(e, now, detected, dur) ==
    IF detected[1] = "NONE"
       THEN /\ tasks' = [tasks EXCEPT ![e.task_id].status = "IN_PROGRESS"]
            /\ event_queue' = heappush(heappop(event_queue)[2],
                   TypedEvent("TASK_COMPLETE", e.task_id, NoWave, now + dur,
                              TaskCompletePriority, n_scheduled + 1))
            /\ UNCHANGED <<active_exceptions, n_exceptions>>
       ELSE /\ active_exceptions' =
                   ((n_exceptions + 1) :>
                       NewException(detected[1], detected[2], tasks, e.task_id, now))
                   @@ active_exceptions
            /\ n_exceptions' = n_exceptions + 1
            /\ event_queue' = heappush(heappop(event_queue)[2],
                   TypedEvent("EXCEPTION_DETECTED", NoTask, NoWave, now,
                              ExceptionDetectedPriority, n_scheduled + 1))
            /\ UNCHANGED tasks

\* A wave completion check scheduled the same instant as the completion.
wave_check_same_time(now) == now

\* The time of the wave completion check a completion at `now` schedules.
wave_check_time(now) == now + WaveCheckDelay

\* _handle_task_complete: complete_task; on success a wave completion check
\* is scheduled one second later when the task has a wave, and a
\* STATION_BECOME_IDLE now when it has a station.
handle_task_complete(e, now) ==
    LET r  == complete_task(tasks, workstations, e.task_id, now)
        t  == tasks[e.task_id]
        q0 == heappop(event_queue)[2]
        q1 == IF r[1] /\ t.assigned_wave # NoWave
                 THEN heappush(q0, TypedEvent("CUSTOM_EVENT", NoTask, t.assigned_wave,
                                   wave_check_time(now), WaveCheckPriority,
                                   n_scheduled + 1))
                 ELSE q0
        q2 == IF r[1] /\ t.assigned_station # NoStation
                 THEN heappush(q1, TypedEvent("STATION_BECOME_IDLE", NoTask, NoWave,
                                   now, StationIdlePriority,
                                   n_scheduled + 1 + (Len(q1) - Len(q0))))
                 ELSE q1
    IN  /\ tasks' = r[2]
        /\ workstations' = r[3]
        /\ event_queue' = q2
        /\ n_scheduled' = n_scheduled + (Len(q2) - Len(q0))

\* _handle_wave_completion_check (the handler_function of the CUSTOM_EVENT):
\* no station is listed in wave.assigned_workstations, so a completed wave
\* schedules nothing.
handle_wave_completion_check(e) ==
    LET r == check_wave_actual_completion(waves, active_waves, tasks, e.wave_id)
        all_completed ==
            \A i \in waves[e.wave_id].task_ids : tasks[i].status = "COMPLETED"
    IN  /\ waves' = r[2]
        /\ active_waves' = r[3]
        /\ completion_checked' =
               IF all_completed THEN completion_checked \cup {e.wave_id}
               ELSE completion_checked
        /\ event_queue' = heappop(event_queue)[2]

\* _process_next_event of a run: pop, set the clock, dispatch on the type.
\* EXCEPTION_DETECTED, STATION_BECOME_IDLE and TASK_ASSIGN handlers only log;
\* the dispatch of a RECEIVING_TASK_ASSIGN is process_receiving_task_assign.
dispatch_event(detected, dur) ==
    /\ sim_state = "RUNNING"
    /\ event_queue # <<>>
    /\ heappop(event_queue)[1].event_type # "RECEIVING_TASK_ASSIGN"
    /\ LET e   == heappop(event_queue)[1]
           now == e.scheduled_time
       IN  /\ current_time' = now
           /\ CASE e.event_type = "TASK_START" ->
                     /\ handle_task_start(e, now, detected, dur)
                     /\ n_scheduled' = n_scheduled + 1
                     /\ UNCHANGED <<workstations, waves, active_waves,
                                    completion_checked, idle_times>>
                [] e.event_type = "TASK_COMPLETE" ->
                     /\ handle_task_complete(e, now)
                     /\ UNCHANGED <<waves, active_waves, completion_checked,
                                    active_exceptions, n_exceptions, idle_times>>
                [] e.event_type = "CUSTOM_EVENT" ->
                     /\ handle_wave_completion_check(e)
                     /\ UNCHANGED <<tasks, workstations, n_scheduled,
                                    active_exceptions, n_exceptions, idle_times>>
                [] OTHER ->
                     /\ event_queue' = heappop(event_queue)[2]
                     /\ idle_times' = IF e.event_type = "STATION_BECOME_IDLE"
                                         THEN idle_times \cup {now} ELSE idle_times
                     /\ UNCHANGED <<tasks, workstations, n_scheduled, waves,
                                    active_waves, completion_checked,
                                    active_exceptions, n_exceptions>>
    /\ UNCHANGED <<sim_state, popped, pass_done, assignment_results,
                   station_assignments, gap_placements, available_leaders,
                   busy_leaders, start_scheduled, preempted, denied>>
    /\ UNCHANGED ovars
    /\ UNCHANGED pvars

\* _process_next_event of a run whose handlers leave the results and the
\* generators alone.
process_event(detected, dur) ==
    /\ dispatch_event(detected, dur)
    /\ UNCHANGED rvars
    /\ UNCHANGED dvars

\* The TASK_START an assigned task gets (the loop over
\* assignment_result['assigned'] after a pass): at now + delay.
schedule_task_start(i, delay) ==
    /\ tasks[i].status = "ASSIGNED"
    /\ i \notin start_scheduled
    /\ event_queue' = heappush(event_queue,
           TypedEvent("TASK_START", i, NoWave, current_time + delay,
                      TaskStartPriority, n_scheduled + 1))
    /\ n_scheduled' = n_scheduled + 1
    /\ start_scheduled' = start_scheduled \cup {i}
    /\ UNCHANGED <<current_time, sim_state, popped>>
    /\ UNCHANGED avars
    /\ UNCHANGED <<waves, active_waves, active_exceptions, n_exceptions,
                   available_leaders, busy_leaders, idle_times, preempted, denied,
                   completion_checked>>
    /\ UNCHANGED rvars
    /\ UNCHANGED ovars
    /\ UNCHANGED pvars
    /\ UNCHANGED dvars

\* ---- operations on waves and exceptions between events ----

\* WaveManager.start_wave: a PLANNED wave that is not started too early
\* becomes IN_PROGRESS and joins the active waves (the log line that follows
\* reads attributes Wave does not have; the state is already changed).
start_wave(w, too_early) ==
    /\ waves[w].status = "PLANNED"
    /\ ~too_early
    /\ waves' = [waves EXCEPT ![w].status = "IN_PROGRESS"]
    /\ active_waves' = active_waves \cup {w}
    /\ UNCHANGED qvars
    /\ UNCHANGED avars
    /\ UNCHANGED <<active_exceptions, n_exceptions, available_leaders,
                   busy_leaders, start_scheduled, idle_times, preempted, denied,
                   completion_checked>>
    /\ UNCHANGED rvars
    /\ UNCHANGED ovars
    /\ UNCHANGED pvars
    /\ UNCHANGED dvars

\* create_exception_task: the first available leader is assigned and the
\* exception becomes ASSIGNED; without a leader nothing changes.
create_exception_task(x) ==
    /\ x \in DOMAIN active_exceptions
    /\ available_leaders # <<>>
    /\ active_exceptions' =
           [active_exceptions EXCEPT ![x].assigned_leader = available_leaders[1],
                                     ![x].status = "ASSIGNED"]
    /\ available_leaders' = Tail(available_leaders)
    /\ busy_leaders' = busy_leaders \cup {available_leaders[1]}
    /\ UNCHANGED qvars
    /\ UNCHANGED avars
    /\ UNCHANGED <<waves, active_waves, n_exceptions, start_scheduled,
                   idle_times, preempted, denied,
                   completion_checked>>
    /\ UNCHANGED rvars
    /\ UNCHANGED ovars
    /\ UNCHANGED pvars
    /\ UNCHANGED dvars

\* allocate_station_for_exception: find a station; a CRITICAL or HIGH
\* exception interrupts the station's IN_PROGRESS current task; then the
\* station is reserved, and only if that succeeds the exception is
\* IN_PROGRESS at the station.
allocate_station_for_exception(x) ==
    /\ x \in DOMAIN active_exceptions
    /\ LET exc == active_exceptions[x]
           s   == find_suitable_station_for_exception(workstations, exc)
       IN  /\ s # NoStation
           /\ LET c == workstations[s].current_task
                  interrupt ==
                      /\ c # NoTask
                      /\ tasks[c].status = "IN_PROGRESS"
                      /\ exc.priority \in {"CRITICAL", "HIGH"}
                      /\ allow_task_interruption = "Y"
                  i == IF interrupt THEN interrupt_current_task(tasks, workstations, s)
                       ELSE <<TRUE, tasks, workstations>>
                  r == IF i[1] THEN reserve_station(i[3], s) ELSE <<FALSE, i[3]>>
              IN  /\ tasks' = i[2]
                  /\ workstations' = r[2]
                  /\ active_exceptions' =
                         IF r[1]
                            THEN [active_exceptions EXCEPT
                                     ![x].handling_station = s,
                                     ![x].start_handling_time =
                                         <<"AT", current_time>>,
                                     ![x].status = "IN_PROGRESS"]
                            ELSE active_exceptions
                  /\ denied' = IF r[1] THEN denied ELSE denied \cup {x}
                  /\ preempted' = IF interrupt /\ i[1]
                                      THEN preempted \cup {<<x, c, s>>}
                                      ELSE preempted
    /\ UNCHANGED qvars
    /\ UNCHANGED <<pass_done, assignment_results, station_assignments,
                   gap_placements>>
    /\ UNCHANGED <<waves, active_waves, n_exceptions, available_leaders,
                   busy_leaders, start_scheduled, idle_times,
                   completion_checked>>
    /\ UNCHANGED rvars
    /\ UNCHANGED ovars
    /\ UNCHANGED pvars
    /\ UNCHANGED dvars

\* _release_exception_resources: the leader returns to the available ones,
\* the handling station is IDLE and no longer reserved.
release_exception_resources(ws, exc) ==
    IF exc.handling_station = NoStation THEN ws
    ELSE [ws EXCEPT ![exc.handling_station].reserved_for_exception = FALSE,
                    ![exc.handling_station].status = "IDLE"]

\* resolve_exception: an IN_PROGRESS exception is resolved, its resources
\* released, and it leaves the active exceptions.
resolve_exception(x) ==
    /\ x \in DOMAIN active_exceptions
    /\ active_exceptions[x].status = "IN_PROGRESS"
    /\ LET exc == active_exceptions[x]
           freed == exc.assigned_leader # 0 /\ exc.assigned_leader \in busy_leaders
       IN  /\ busy_leaders' = IF freed THEN busy_leaders \ {exc.assigned_leader}
                              ELSE busy_leaders
           /\ available_leaders' = IF freed
                                      THEN Append(available_leaders, exc.assigned_leader)
                                      ELSE available_leaders
           /\ workstations' = release_exception_resources(workstations, exc)
    /\ active_exceptions' =
           [y \in DOMAIN active_exceptions \ {x} |-> active_exceptions[y]]
    /\ UNCHANGED qvars
    /\ UNCHANGED <<tasks, pass_done, assignment_results, station_assignments,
                   gap_placements>>
    /\ UNCHANGED <<waves, active_waves, n_exceptions, start_scheduled,
                   idle_times, preempted, denied,
                   completion_checked>>
    /\ UNCHANGED rvars
    /\ UNCHANGED ovars
    /\ UNCHANGED pvars
    /\ UNCHANGED dvars

Next ==
    \/ \E in \in PassInputs : assign_tasks_to_stations(in[1], in[2])
    \/ \E i \in TaskIds, delay \in StartDelays : schedule_task_start(i, delay)
    \/ run_simulation
    \/ \E detected \in DetectionOutcomes, dur \in ActualDurations :
           process_event(detected, dur)
    \/ \E w \in WaveIds, too_early \in BOOLEAN : start_wave(w, too_early)
    \/ \E x \in 1..NumTasks : create_exception_task(x)
    \/ \E x \in 1..NumTasks : allocate_station_for_exception(x)
    \/ \E x \in 1..NumTasks : resolve_exception(x)

Spec == Init /\ [][Next]_vars

RunMaxEnd == 2
RunMaxDaily == 1
RunMaxEvents == 6

SimulationStartPriority == 0
SimulationEndPriority == 0
StatusUpdatePriority == 10
DailyPriorities == {2, 5}

\* The periodic SYSTEM_STATUS_UPDATE events: one per interval before the end.
RECURSIVE schedule_status_updates(_, _, _, _)
schedule_status_updates(heap, t, end_time, n) ==
    IF t >= end_time THEN heap
    ELSE schedule_status_updates(
             heappush(heap, TypedEvent("SYSTEM_STATUS_UPDATE", NoTask, NoWave, t,
                                       StatusUpdatePriority, n + 1)),
             t + 1, end_time, n + 1)

\* The daily events (schedule generation, end-of-day processing, ...): each
\* is <<time, priority>>.
RECURSIVE schedule_daily(_, _, _)
schedule_daily(heap, daily, n) ==
    IF daily = <<>> THEN heap
    ELSE schedule_daily(
             heappush(heap, TypedEvent("DAILY", NoTask, NoWave, daily[1][1],
                                       daily[1][2], n + 1)),
             Tail(daily), n + 1)

DailyEvents ==
    UNION {[1..k -> (0..(RunMaxEnd + 1)) \X DailyPriorities] : k \in 0..RunMaxDaily}

\* _create_initial_events(start_time, end_time): SIMULATION_START at the start,
\* SIMULATION_END at the end, the status updates, the daily events.
create_initial_events(end_time, daily) ==
    /\ sim_state = "INITIALIZED"
    /\ event_queue = <<>>
    /\ LET q1 == heappush(<<>>, TypedEvent("SIMULATION_START", NoTask, NoWave, 0,
                                           SimulationStartPriority, 1))
           q2 == heappush(q1, TypedEvent("SIMULATION_END", NoTask, NoWave, end_time,
                                         SimulationEndPriority, 2))
           q3 == schedule_status_updates(q2, 0, end_time, 2)
       IN  /\ event_queue' = schedule_daily(q3, daily, Len(q3))
           /\ n_scheduled' = Len(q3) + Len(daily)
    /\ UNCHANGED <<current_time, sim_state, popped>>
    /\ UNCHANGED avars
    /\ UNCHANGED xvars
    /\ UNCHANGED rvars
    /\ UNCHANGED ovars
    /\ UNCHANGED pvars
    /\ UNCHANGED dvars

\* The events a handler schedules, typed.
RECURSIVE schedule_typed(_, _, _, _)
schedule_typed(heap, now, calls, n) ==
    IF calls = <<>> THEN heap
    ELSE schedule_typed(
             heappush(heap, TypedEvent("FOLLOW_UP", NoTask, NoWave,
                                       now + calls[1][1], calls[1][2], n + 1)),
             now, Tail(calls), n + 1)

\* A dispatcher in which no handler ends the loop.
should_continue_kept(event_type, sc) == sc

\* _handle_simulation_end: should_continue is cleared; every other handler
\* leaves it.
should_continue_after(event_type, sc) ==
    IF event_type = "SIMULATION_END" THEN FALSE ELSE sc

\* One iteration of the loop of run_simulation: _process_next_event pops,
\* sets the clock and runs the handler. A handler that raises is caught by
\* _process_next_event, which logs the error; the event is then not appended
\* to processed_events. _handle_simulation_end clears should_continue and
\* rolls up the final statistics.
run_step(raises, calls) ==
    /\ sim_state = "RUNNING"
    /\ should_continue
    /\ event_queue # <<>>
    /\ n_scheduled + Len(calls) <= RunMaxEvents
    /\ LET r   == heappop(event_queue)
           e   == r[1]
           now == e.scheduled_time
           is_end == e.event_type = "SIMULATION_END"
           raised == raises /\ ~is_end
       IN  /\ current_time' = now
           /\ popped' = Append(popped, e)
           /\ should_continue' = should_continue_after(e.event_type, should_continue)
           /\ final_statistics' = IF is_end THEN final_statistics + 1
                                  ELSE final_statistics
           /\ event_queue' = IF raised \/ is_end THEN r[2]
                             ELSE schedule_typed(r[2], now, calls, n_scheduled)
           /\ n_scheduled' = IF raised \/ is_end THEN n_scheduled
                             ELSE n_scheduled + Len(calls)
           /\ handler_raised' = IF raised THEN handler_raised + 1 ELSE handler_raised
           /\ start_raised' = (start_raised \/ (raised /\ e.event_type = "SIMULATION_START"))
    /\ UNCHANGED <<sim_state, results_errors>>
    /\ UNCHANGED ovars
    /\ UNCHANGED pvars
    /\ UNCHANGED dvars
    /\ UNCHANGED avars
    /\ UNCHANGED xvars

\* The loop of run_simulation is left when should_continue is cleared or the
\* queue is empty; _finalize_simulation then sets COMPLETED and rolls up the
\* final statistics.
finalize_simulation ==
    /\ sim_state = "RUNNING"
    /\ (~should_continue \/ event_queue = <<>>)
    /\ sim_state' = "COMPLETED"
    /\ final_statistics' = final_statistics + 1
    /\ UNCHANGED <<event_queue, current_time, popped, n_scheduled>>
    /\ UNCHANGED <<should_continue, results_errors, handler_raised, start_raised>>
    /\ UNCHANGED ovars
    /\ UNCHANGED pvars
    /\ UNCHANGED dvars
    /\ UNCHANGED avars
    /\ UNCHANGED xvars

RunInit ==
    /\ EngineInit
    /\ ManagerInit({<<>>})
    /\ WaveManagerInit
    /\ ExceptionHandlerInit
    /\ ResultsInit
    /\ OvertimeStateInit({"Y"}, {default_max_hours_per_day})
    /\ OrderStateInit({NoSchedule})
    /\ LifecycleStateInit({0})

RunNext ==
    \/ \E end_time \in 1..RunMaxEnd, daily \in DailyEvents :
           create_initial_events(end_time, daily)
    \/ run_simulation
    \/ \E raises \in BOOLEAN, calls \in HandlerCalls : run_step(raises, calls)
    \/ finalize_simulation

RunSpec == RunInit /\ [][RunNext]_vars

\* C11: every handler that raised during dispatch is recorded in the results'
\* errors list.
HandlerErrorsRecorded ==
    results_errors = handler_raised

\* C12: a run whose SIMULATION_START handler raised does not end COMPLETED: it
\* ends in state ERROR.
StartErrorAbortsRun ==
    start_raised => sim_state # "COMPLETED"

\* The positions in the dispatch order at which SIMULATION_END was dispatched.
EndDispatched ==
    {k \in 1..Len(popped) : popped[k].event_type = "SIMULATION_END"}

\* C13: once SIMULATION_END is dispatched it is the last event dispatched,
\* whatever remains queued, and the final statistics have been rolled up.
NoDispatchAfterSimulationEnd ==
    \A k \in EndDispatched :
        /\ k = Len(popped)
        /\ final_statistics >= 1

\* A run that ended on SIMULATION_END with events still queued.
NoDispatchAfterSimulationEndWitness ==
    /\ EndDispatched # {}
    /\ event_queue # <<>>
    /\ sim_state = "COMPLETED"

(***************************************************************************)
(* Part 5: the order of dispatch of the task events                        *)
(***************************************************************************)

\* The run of part 3 without the operations on exceptions: the pass, the
\* TASK_START events, the dispatch (a TASK_START may still detect an
\* exception) and the start of waves.
\* The detections of the dispatch runs: none, or an exception of the task.
DispatchDetections == {<<"NONE", "MEDIUM">>, <<"TASK", "HIGH">>}

\* The waves started in the dispatch runs: those the tasks of the run belong to.
DispatchWaves == {find_wave_for_partcustid("PA")}

DispatchNext ==
    \/ \E in \in PassInputs : assign_tasks_to_stations(in[1], in[2])
    \/ \E i \in TaskIds, delay \in StartDelays : schedule_task_start(i, delay)
    \/ run_simulation
    \/ \E detected \in DispatchDetections, dur \in ActualDurations :
           process_event(detected, dur)
    \/ \E w \in DispatchWaves, too_early \in BOOLEAN : start_wave(w, too_early)

DispatchSpec == Init /\ [][DispatchNext]_vars

\* The positions of the queue holding an event of a type.
Queued(q, ty) == {k \in 1..Len(q) : q[k].event_type = ty}

\* C14: a TASK_COMPLETE and a STATION_BECOME_IDLE of the same scheduled time
\* are dispatched in that order: no TASK_COMPLETE is still queued for a time
\* at which a STATION_BECOME_IDLE has been dispatched.
TaskCompleteBeforeStationIdle ==
    \A k \in Queued(event_queue, "TASK_COMPLETE") :
        event_queue[k].scheduled_time \notin idle_times

\* Two tasks completed at the same time: both TASK_COMPLETE were dispatched
\* before the first STATION_BECOME_IDLE of that time, and the second
\* STATION_BECOME_IDLE of that time is still queued.
TaskCompleteBeforeStationIdleWitness ==
    /\ current_time \in idle_times
    /\ Cardinality({i \in TaskIds : tasks[i].status = "COMPLETED"}) >= 2
    /\ \E k \in Queued(event_queue, "STATION_BECOME_IDLE") :
           event_queue[k].scheduled_time = current_time

\* The wave completion checks of a wave queued for a time.
QueuedChecks(q, w, t) ==
    {k \in Queued(q, "CUSTOM_EVENT") : q[k].wave_id = w /\ q[k].scheduled_time = t}

\* The event at the head of the queue: the one the next dispatch pops.
NextEvent == heappop(event_queue)[1]

\* A step that dispatches an event of a type.
Dispatches(ty) ==
    /\ event_queue # <<>>
    /\ NextEvent.event_type = ty
    /\ \E detected \in DetectionOutcomes, dur \in ActualDurations :
           process_event(detected, dur)

TaskStartStartsTask ==
    [][(/\ Dispatches("TASK_START")
        /\ n_exceptions' = n_exceptions)
       => LET i == NextEvent.task_id
              completes == {k \in Queued(event_queue', "TASK_COMPLETE") :
                               event_queue'[k].task_id = i}
          IN  /\ tasks'[i].status = "IN_PROGRESS"
              /\ Cardinality(completes) = 1
              /\ \A k \in completes :
                     /\ event_queue'[k].scheduled_time > NextEvent.scheduled_time
                     /\ workstations'[tasks[i].assigned_station].available_time
                            = <<"AT", event_queue'[k].scheduled_time>>
      ]_vars

\* ---------------------------------------------------------------------
\* Part 6.  The assignment of the receiving tasks of a day, ReceivingSpec.
\* ---------------------------------------------------------------------

ReceivingAssignPriority == 4
ReceivingAssignDelay == 1

\* The receiving tasks _handle_receiving_task_assign selects: RECEIVING and
\* PENDING (every task of the model arrives on the day of the event).
pending_receiving_ids(tk) ==
    SelectSeq(receiving_ids(tk), LAMBDA i : tk[i].status = "PENDING")

\* assign_tasks_to_stations called with receiving tasks only: no shipping
\* wave, the receiving tasks go to the gap stations.
assign_receiving_tasks(tk, ws, ids, tracker_open) ==
    assign_p3_and_receiving_gap_tasks(
        [tasks |-> tk, workstations |-> ws,
         assigned |-> <<>>, unassigned |-> <<>>, errors |-> <<>>,
         overtime_required |-> <<>>, infeasible |-> {},
         assigned_stations |-> {},
         station_assignments |-> <<>>, gap_placements |-> <<>>],
        "OTHER", "NONE", ids, tracker_open, FALSE)

\* _handle_receiving_load, once the receiving tasks of the day are created:
\* the RECEIVING_TASK_ASSIGN of the day is scheduled.
handle_receiving_load ==
    /\ sim_state = "RUNNING"
    /\ Queued(event_queue, "RECEIVING_TASK_ASSIGN") = {}
    /\ n_scheduled < MaxEvents
    /\ event_queue' = heappush(event_queue,
           TypedEvent("RECEIVING_TASK_ASSIGN", NoTask, NoWave,
                      current_time + ReceivingAssignDelay,
                      ReceivingAssignPriority, n_scheduled + 1))
    /\ n_scheduled' = n_scheduled + 1
    /\ UNCHANGED <<current_time, sim_state, popped>>
    /\ UNCHANGED avars
    /\ UNCHANGED xvars
    /\ UNCHANGED rvars
    /\ UNCHANGED ovars
    /\ UNCHANGED pvars
    /\ UNCHANGED dvars

\* _process_next_event on a RECEIVING_TASK_ASSIGN, _handle_receiving_task_assign:
\* with pending receiving tasks and a staff schedule the pass runs; the loop
\* that schedules the TASK_START of the assigned tasks evaluates
\* random.randint, and random is not imported: its first iteration raises,
\* _process_next_event logs the exception, and no TASK_START is scheduled.
process_receiving_task_assign(has_schedule, tracker_open) ==
    /\ sim_state = "RUNNING"
    /\ event_queue # <<>>
    /\ heappop(event_queue)[1].event_type = "RECEIVING_TASK_ASSIGN"
    /\ LET e   == heappop(event_queue)[1]
           ids == pending_receiving_ids(tasks)
           m   == assign_receiving_tasks(tasks, workstations, ids, tracker_open)
       IN  /\ current_time' = e.scheduled_time
           /\ event_queue' = heappop(event_queue)[2]
           /\ IF ids # <<>> /\ has_schedule
                 THEN /\ tasks' = m.tasks
                      /\ workstations' = m.workstations
                      /\ assignment_results' =
                             [assigned |-> m.assigned, unassigned |-> m.unassigned,
                              errors |-> m.errors,
                              overtime_required |-> m.overtime_required,
                              infeasible |-> m.infeasible]
                      /\ station_assignments' = m.station_assignments
                      /\ gap_placements' = m.gap_placements
                      /\ handler_raised' =
                             IF m.assigned # <<>> THEN handler_raised + 1
                             ELSE handler_raised
                 ELSE UNCHANGED <<tasks, workstations, assignment_results,
                                  station_assignments, gap_placements,
                                  handler_raised>>
    /\ UNCHANGED <<sim_state, popped, n_scheduled, pass_done>>
    /\ UNCHANGED xvars
    /\ UNCHANGED <<should_continue, results_errors, final_statistics,
                   start_raised>>
    /\ UNCHANGED ovars
    /\ UNCHANGED pvars
    /\ UNCHANGED dvars

ReceivingNext ==
    \/ \E in \in PassInputs : assign_tasks_to_stations(in[1], in[2])
    \/ \E i \in TaskIds, delay \in StartDelays : schedule_task_start(i, delay)
    \/ run_simulation
    \/ handle_receiving_load
    \/ \E has_schedule \in BOOLEAN, tracker_open \in BOOLEAN :
           process_receiving_task_assign(has_schedule, tracker_open)
    \/ \E detected \in DispatchDetections, dur \in ActualDurations :
           process_event(detected, dur)

ReceivingSpec == Init /\ [][ReceivingNext]_vars

MaxExceptions == 1
ExceptionIds == 1..MaxExceptions

\* The base priorities of the exception types drawn for a running task:
\* SYSTEM_ERROR is CRITICAL, BARCODE_UNREADABLE is LOW.
BasePriorities == {"CRITICAL", "LOW"}

\* _determine_exception_priority: the base priority of the type, raised one
\* step from LOW or MEDIUM when the task is P1.
determine_exception_priority(base_priority, task) ==
    IF task.priority_level = "P1"
       THEN IF base_priority = "LOW" THEN "MEDIUM"
            ELSE IF base_priority = "MEDIUM" THEN "HIGH"
            ELSE base_priority
       ELSE base_priority

\* detect_exceptions(current_time, context={'tasks': [task]}) finding an
\* exception of the task: the exception is registered in active_exceptions.
detect_exceptions(i, base_priority) ==
    /\ tasks[i].status = "IN_PROGRESS"
    /\ n_exceptions < MaxExceptions
    /\ active_exceptions' =
           ((n_exceptions + 1) :>
               NewException("TASK",
                   determine_exception_priority(base_priority, tasks[i]),
                   tasks, i, current_time))
           @@ active_exceptions
    /\ n_exceptions' = n_exceptions + 1
    /\ UNCHANGED qvars
    /\ UNCHANGED avars
    /\ UNCHANGED <<waves, active_waves, available_leaders, busy_leaders,
                   start_scheduled, idle_times, preempted, denied,
                   completion_checked>>
    /\ UNCHANGED rvars
    /\ UNCHANGED ovars
    /\ UNCHANGED pvars
    /\ UNCHANGED dvars

\* params['escalation_time_threshold'], the ten minutes an exception may wait
\* in DETECTED, and params['critical_exception_immediate_escalation']; the
\* clock of the exception runs counts minutes.
escalation_time_threshold == 30
DetectedWaitLimit == 10
critical_exception_immediate_escalation == "Y"

\* How long after the current event check_escalation_conditions is called.
CheckOffsets == {11, 31}

\* escalate_exception: the exception is ESCALATED and its priority rises one
\* level.
escalate_exception(exc) ==
    [exc EXCEPT !.status = "ESCALATED",
                !.priority = IF @ = "LOW" THEN "MEDIUM"
                             ELSE IF @ = "MEDIUM" THEN "HIGH"
                             ELSE IF @ = "HIGH" THEN "CRITICAL"
                             ELSE @]

\* The three conditions of check_escalation_conditions: handled for longer
\* than the threshold, CRITICAL and ASSIGNED, or DETECTED for more than ten
\* minutes.
should_escalate(exc, now) ==
    \/ /\ exc.start_handling_time # NoTime
       /\ now - exc.start_handling_time[2] > escalation_time_threshold
    \/ /\ exc.priority = "CRITICAL"
       /\ critical_exception_immediate_escalation = "Y"
       /\ exc.status = "ASSIGNED"
    \/ /\ exc.status = "DETECTED"
       /\ now - exc.detection_time > DetectedWaitLimit

\* check_escalation_conditions(current_time): every active exception that
\* meets a condition is escalated.
check_escalation_conditions(now) ==
    /\ \E x \in DOMAIN active_exceptions : should_escalate(active_exceptions[x], now)
    /\ active_exceptions' =
           [x \in DOMAIN active_exceptions |->
               IF should_escalate(active_exceptions[x], now)
                  THEN escalate_exception(active_exceptions[x])
                  ELSE active_exceptions[x]]
    /\ UNCHANGED qvars
    /\ UNCHANGED avars
    /\ UNCHANGED <<waves, active_waves, n_exceptions, available_leaders,
                   busy_leaders, start_scheduled, idle_times, preempted, denied,
                   completion_checked>>
    /\ UNCHANGED rvars
    /\ UNCHANGED ovars
    /\ UNCHANGED pvars
    /\ UNCHANGED dvars

ExceptionNext ==
    \/ \E d \in CheckOffsets : check_escalation_conditions(current_time + d)
    \/ \E in \in PassInputs : assign_tasks_to_stations(in[1], in[2])
    \/ \E i \in TaskIds, delay \in StartDelays : schedule_task_start(i, delay)
    \/ run_simulation
    \/ \E dur \in ActualDurations : process_event(<<"NONE", "MEDIUM">>, dur)
    \/ \E i \in TaskIds, base_priority \in BasePriorities :
           detect_exceptions(i, base_priority)
    \/ \E x \in ExceptionIds : create_exception_task(x)
    \/ \E x \in ExceptionIds : allocate_station_for_exception(x)
    \/ \E x \in ExceptionIds : resolve_exception(x)

ExceptionSpec == Init /\ [][ExceptionNext]_vars

\* A step that is allocate_station_for_exception of the exception x.
Allocates(x) ==
    /\ x \in DOMAIN active_exceptions
    /\ allocate_station_for_exception(x)

DeniedExceptionEscalates ==
    \A x \in ExceptionIds \cap DOMAIN active_exceptions :
        \A d \in CheckOffsets :
            (/\ x \in denied
             /\ active_exceptions[x].status \in {"DETECTED", "ASSIGNED"}
             /\ current_time + d - active_exceptions[x].detection_time
                    > DetectedWaitLimit)
            => should_escalate(active_exceptions[x], current_time + d)

MinutesPerTick == 5
TicksPerHour == 60 \div MinutesPerTick
DayTicks == 24 * TicksPerHour

\* datetime.combine(date, hh:mm) on day 0, and the parts of a datetime
HM(h, m) == h * TicksPerHour + m \div MinutesPerTick
date_of(t) == t \div DayTicks
hour_of(t) == (t % DayTicks) \div TicksPerHour

\* The last day of the run (end_time.date()).
LastDay == 1

\* StaffScheduleGenerator.params (defaults)
shift_start_time == HM(8, 50)
shift_end_time == HM(17, 30)
max_overtime_hours == 3
overtime_end_time == HM(20, 30)

\* 'current_hours': 8.0, the hours _schedule_immediate_overtime_for_tasks
\* assumes a staff has worked
current_hours == 8

\* params['receiving_completion_days'] (default)
receiving_completion_days == 3

\* params['max_task_duration'] = max_task_duration_seconds / 60, in minutes
max_task_duration == 300 \div 60

\* _create_initial_events: the hours of the daily checks and their priorities
DeadlineCheckHours == {10, 14, 16}
EndOfDayHour == 17
DeadlineCheckPriority == 6
EndOfDayPriority == 2
OvertimeStartPriority == 1
OvertimeTaskStartPriority == 1
OvertimeEndPriority == 3

\* task.arrival_date / deadline_date of a task that has none
NoDate == "NONE"

\* create_tasks_from_receiving, the Task it builds for a row that arrived on
\* `arrival_date` when called on `current_date`: the deadline is the arrival
\* plus receiving_completion_days - 1, is_overdue is computed once, here.
receiving_task(fl, dur, arrival_date, current_date) ==
    LET deadline_date == arrival_date + (receiving_completion_days - 1)
    IN  [partcustid |-> NoPartcustid, floor |-> fl, priority_level |-> "P4",
         task_type |-> "RECEIVING", estimated_duration |-> dur,
         status |-> "PENDING", assigned_station |-> NoStation,
         assigned_wave |-> NoWave, route_code |-> "NONE",
         arrival_date |-> arrival_date, deadline_date |-> deadline_date,
         is_overdue |-> (current_date > deadline_date)]

\* create_tasks_from_orders, the Task it builds for an order of a route.
shipping_task(route_code, prio, fl, dur) ==
    [partcustid |-> route_code, floor |-> fl, priority_level |-> prio,
     task_type |-> "SHIPPING", estimated_duration |-> dur,
     status |-> "PENDING", assigned_station |-> NoStation,
     assigned_wave |-> NoWave, route_code |-> route_code,
     arrival_date |-> NoDate, deadline_date |-> NoDate, is_overdue |-> FALSE]

\* The tasks of day 0: receiving tasks of floor 2 (quantity * time per piece
\* is one hour or four; arrived three days ago or two days ago), one
\* of them already assigned to the temporary station, a sub-warehouse
\* shipping task and an ordinary one.
ReceivingDurations == {60, 240}
ArrivalDates == {-3, -2}

OvertimeTaskInputs ==
    {receiving_task(2, dur, a, 0) : dur \in ReceivingDurations, a \in ArrivalDates}
    \cup {[receiving_task(2, 60, -2, 0) EXCEPT !.status = "ASSIGNED",
                                               !.assigned_station = "ST2T01"]}
    \cup {shipping_task("SDTC", "P3", 3, 5), shipping_task("R01", "P1", 2, 5)}

\* generate_daily_schedule: the staff of each fixed station (assign_staff_shift
\* names the stations ST<floor>F<nn>).
base_schedule == [s \in {s \in Stations : IsFixed(s)} |-> IF s = "ST2F01" THEN 1 ELSE 2]

\* dict[k] = v on a dict kept as the list of its items, in insertion order
dict_set(d, k, v) ==
    IF \E n \in 1..Len(d) : d[n][1] = k
       THEN [n \in 1..Len(d) |-> IF d[n][1] = k THEN <<k, v>> ELSE d[n]]
       ELSE Append(d, <<k, v>>)

\* list.sort(key = ...): stable, ascending in key[id]
RECURSIVE sort_by_key(_, _)
sort_by_key(ids, key) ==
    IF ids = <<>> THEN <<>>
    ELSE LET head == sort_by_key(SubSeq(ids, 1, Len(ids) - 1), key)
             x == ids[Len(ids)]
             k == Cardinality({i \in 1..Len(head) : key[head[i]] <= key[x]})
         IN  SubSeq(head, 1, k) \o <<x>> \o SubSeq(head, k + 1, Len(head))

AllTaskIds(tk) == SelectSeq([i \in 1..NumTasks |-> i], LAMBDA i : i \in DOMAIN tk)

\* get_overdue_receiving_tasks(current_date): computed from the dates, the
\* most overdue first; a CANCELLED task is still listed.
get_overdue_receiving_tasks(tk, current_date) ==
    sort_by_key(
        SelectSeq(AllTaskIds(tk),
                  LAMBDA i : /\ tk[i].task_type = "RECEIVING"
                             /\ current_date > tk[i].deadline_date
                             /\ tk[i].status # "COMPLETED"),
        [i \in DOMAIN tk |-> IF tk[i].task_type = "RECEIVING"
                                THEN tk[i].deadline_date - current_date ELSE 0])

\* get_due_today_tasks(current_date), by priority
get_due_today_tasks(tk, current_date) ==
    sort_by_key(
        SelectSeq(AllTaskIds(tk),
                  LAMBDA i : /\ tk[i].task_type = "RECEIVING"
                             /\ tk[i].deadline_date = current_date
                             /\ tk[i].status # "COMPLETED"),
        [i \in DOMAIN tk |->
            CASE tk[i].priority_level = "P1" -> 1
              [] tk[i].priority_level = "P2" -> 2
              [] tk[i].priority_level = "P3" -> 3
              [] tk[i].priority_level = "P4" -> 4
              [] OTHER -> 5])

\* max(1.0, task.estimated_duration / 60) hours, in ticks
required_hours(t) == Max(TicksPerHour, t.estimated_duration \div MinutesPerTick)

\* The station _schedule_immediate_overtime_for_tasks files a task under: its
\* assigned station, else the first unreserved station of its floor, else the
\* floor's first fixed station.
overtime_station(t, ws) ==
    IF t.assigned_station # NoStation THEN t.assigned_station
    ELSE LET floor_stations ==
                 SelectSeq(StationOrder,
                           LAMBDA s : /\ StationFloor(s) = t.floor
                                      /\ ~ws[s].reserved_for_exception)
         IN  IF floor_stations # <<>> THEN floor_stations[1]
             ELSE IF t.floor = 3 THEN "ST3F01" ELSE "ST2F01"

\* overtime_requirements[station_id] = {...} for each task in turn: one entry
\* per station, the last task filed under a station replaces the earlier one.
RECURSIVE overtime_requirements(_, _, _)
overtime_requirements(ids, tk, ws) ==
    IF ids = <<>> THEN <<>>
    ELSE LET i == ids[Len(ids)]
         IN  dict_set(overtime_requirements(SubSeq(ids, 1, Len(ids) - 1), tk, ws),
                      overtime_station(tk[i], ws),
                      [task_id |-> i, required_hours |-> required_hours(tk[i]),
                       current_hours |-> current_hours * TicksPerHour])

\* An event of this part: a TypedEvent with the session id and the
\* overtime_info of an OVERTIME_START / OVERTIME_END; for_tasks is a history
\* field, the tasks the session was scheduled for.
OvertimeEvent(ty, task_id, sid, info, ids, t, p, n) ==
    [scheduled_time |-> t, priority |-> p, seq |-> n, by_handler |-> TRUE,
     event_type |-> ty, task_id |-> task_id, wave_id |-> NoWave,
     session_id |-> sid, overtime_info |-> info, for_tasks |-> ids]

\* _schedule_immediate_overtime_for_tasks(tasks, current_time, reason) and
\* _schedule_overtime_session: an OVERTIME_START now; nothing for no task.
\* The queue and the count of scheduled events, as <<queue, count>>.
schedule_immediate_overtime_for_tasks(qn, ids, now, tk, ws) ==
    IF ids = <<>> THEN qn
    ELSE <<heappush(qn[1],
               OvertimeEvent("OVERTIME_START", NoTask, qn[2] + 1,
                             overtime_requirements(ids, tk, ws), ids,
                             now, OvertimeStartPriority, qn[2] + 1)),
           qn[2] + 1>>

\* _handle_receiving_deadline_check: overtime for the overdue tasks, and from
\* 15:00 on for the tasks due today that are neither completed nor running.
handle_receiving_deadline_check(qn, now, tk, ws) ==
    LET current_date == date_of(now)
        overdue_tasks == get_overdue_receiving_tasks(tk, current_date)
        due_today_tasks == get_due_today_tasks(tk, current_date)
        incomplete_due_today ==
            SelectSeq(due_today_tasks,
                      LAMBDA i : tk[i].status \notin {"COMPLETED", "IN_PROGRESS"})
        q1 == schedule_immediate_overtime_for_tasks(qn, overdue_tasks, now, tk, ws)
    IN  IF incomplete_due_today # <<>> /\ hour_of(now) >= 15
           THEN schedule_immediate_overtime_for_tasks(q1, incomplete_due_today,
                                                      now, tk, ws)
           ELSE q1

\* An end of day that schedules nothing.
no_end_of_day_processing(qn, now, tk, ws) == qn

\* _handle_end_of_day_processing: overtime for the unfinished sub-warehouse
\* shipping tasks and for the unfinished receiving tasks due today.
handle_end_of_day_processing(qn, now, tk, ws) ==
    LET incomplete_sub_warehouse ==
            SelectSeq(AllTaskIds(tk),
                      LAMBDA i : /\ tk[i].task_type = "SHIPPING"
                                 /\ tk[i].route_code \in {"SDTC", "SDHN"}
                                 /\ tk[i].status \notin {"COMPLETED", "CANCELLED"})
        due_today_receiving ==
            SelectSeq(AllTaskIds(tk),
                      LAMBDA i : /\ tk[i].task_type = "RECEIVING"
                                 /\ tk[i].deadline_date = date_of(now)
                                 /\ tk[i].status \notin {"COMPLETED", "CANCELLED"})
    IN  schedule_immediate_overtime_for_tasks(
            schedule_immediate_overtime_for_tasks(qn, incomplete_sub_warehouse,
                                                  now, tk, ws),
            due_today_receiving, now, tk, ws)

\* _can_staff_overtime(staff_id, overtime_info): the hours the requirement
\* assumes plus the required hours within the staff's daily limit, and
\* overtime enabled.
can_staff_overtime(req, enabled, max_hours) ==
    /\ ~(req.current_hours + req.required_hours > max_hours * TicksPerHour)
    /\ enabled = "Y"

\* generate_overtime_schedule(base_schedule, overtime_requirements): one row
\* per station that has a staff who can do overtime, from the end of the
\* shift, for min(required, max_overtime_hours), cut at overtime_end_time.
RECURSIVE generate_overtime_schedule(_, _, _, _)
generate_overtime_schedule(info, day, enabled, max_hours) ==
    IF info = <<>> THEN <<>>
    ELSE LET head == generate_overtime_schedule(SubSeq(info, 1, Len(info) - 1),
                                                day, enabled, max_hours)
             station_id == info[Len(info)][1]
             req == info[Len(info)][2]
             overtime_duration ==
                 IF req.required_hours <= max_overtime_hours * TicksPerHour
                    THEN req.required_hours
                    ELSE max_overtime_hours * TicksPerHour
             overtime_end == shift_end_time + overtime_duration
         IN  IF station_id \notin DOMAIN base_schedule THEN head
             ELSE IF ~can_staff_overtime(req, enabled, max_hours) THEN head
             ELSE Append(head,
                      [date |-> day, station_id |-> station_id,
                       staff_id |-> base_schedule[station_id],
                       shift_start_time |-> shift_end_time,
                       shift_end_time |-> IF overtime_end > overtime_end_time
                                             THEN overtime_end_time
                                             ELSE overtime_end,
                       overtime_hours |-> IF overtime_end > overtime_end_time
                                             THEN Max(0, overtime_end_time - shift_end_time)
                                             ELSE overtime_duration])

\* f"{task_id}_OT"
overtime_task_id(i) == i + NumTasks

\* create_overtime_tasks(overtime_requirements): for each station's entry whose
\* task exists, a copy of the task with priority P1, the required hours as
\* its duration and the station as its assigned station is filed in
\* overtime_tasks, and the original is CANCELLED.
\* <<tasks, overtime_tasks, the ids of the copies in order>>
RECURSIVE create_overtime_tasks(_, _, _)
create_overtime_tasks(info, tk, ot) ==
    IF info = <<>> THEN <<tk, ot, <<>>>>
    ELSE LET r == create_overtime_tasks(SubSeq(info, 1, Len(info) - 1), tk, ot)
             station_id == info[Len(info)][1]
             req == info[Len(info)][2]
             i == req.task_id
             original_task == r[1][i]
             receiving == original_task.task_type = "RECEIVING"
             overtime_task ==
                 [partcustid |-> original_task.partcustid,
                  floor |-> original_task.floor,
                  priority_level |-> "P1",
                  task_type |-> original_task.task_type,
                  estimated_duration |-> req.required_hours * MinutesPerTick,
                  status |-> "PENDING",
                  assigned_station |-> station_id,
                  assigned_wave |-> NoWave,
                  route_code |-> original_task.route_code,
                  arrival_date |-> IF receiving THEN original_task.arrival_date
                                   ELSE NoDate,
                  deadline_date |-> IF receiving THEN original_task.deadline_date
                                    ELSE NoDate,
                  is_overdue |-> receiving]
         IN  IF i \notin DOMAIN r[1] THEN r
             ELSE <<[r[1] EXCEPT ![i].status = "CANCELLED"],
                    (overtime_task_id(i) :> overtime_task) @@ r[2],
                    Append(r[3], overtime_task_id(i))>>

\* The TASK_START of each overtime task, five minutes after the start.
RECURSIVE schedule_overtime_task_starts(_, _, _)
schedule_overtime_task_starts(qn, ids, now) ==
    IF ids = <<>> THEN qn
    ELSE schedule_overtime_task_starts(
             <<heappush(qn[1],
                   OvertimeEvent("TASK_START", ids[1], NoTask, <<>>, <<>>,
                                 now + 1, OvertimeTaskStartPriority, qn[2] + 1)),
               qn[2] + 1>>,
             Tail(ids), now)

\* max(req['required_hours'] for req in overtime_info.values())
RECURSIVE max_required_hours(_)
max_required_hours(info) ==
    IF info = <<>> THEN 0
    ELSE Max(info[1][2].required_hours, max_required_hours(Tail(info)))

\* The part of the state a handler of this part changes.
OvertimeState ==
    [event_queue |-> event_queue, n_scheduled |-> n_scheduled, tasks |-> tasks,
     overtime_tasks |-> overtime_tasks, overtime_sessions |-> overtime_sessions,
     current_overtime_schedule |-> current_overtime_schedule,
     overtime_rows |-> overtime_rows, idle_times |-> idle_times]

\* _handle_overtime_start: with a staff schedule of the day, the overtime
\* schedule is generated, the overtime tasks are created and started, the
\* OVERTIME_END is scheduled at now + the largest required hours and the
\* session is recorded; without one nothing happens.
handle_overtime_start(st, e, now, has_schedule) ==
    IF ~has_schedule THEN st
    ELSE LET overtime_info == e.overtime_info
             overtime_schedule ==
                 generate_overtime_schedule(overtime_info, date_of(now),
                                            overtime_enabled, max_hours_per_day)
             c == create_overtime_tasks(overtime_info, st.tasks, st.overtime_tasks)
             q1 == schedule_overtime_task_starts(<<st.event_queue, st.n_scheduled>>,
                                                 c[3], now)
             overtime_end == now + max_required_hours(overtime_info)
         IN  [st EXCEPT
                 !.current_overtime_schedule = overtime_schedule,
                 !.overtime_rows = @ \o overtime_schedule,
                 !.tasks = c[1],
                 !.overtime_tasks = c[2],
                 !.event_queue =
                     heappush(q1[1],
                         OvertimeEvent("OVERTIME_END", NoTask, e.session_id, <<>>,
                                       <<>>, overtime_end, OvertimeEndPriority,
                                       q1[2] + 1)),
                 !.n_scheduled = q1[2] + 1,
                 !.overtime_sessions =
                     Append(@, [session_id |-> e.session_id, start_time |-> now,
                                end_time |-> overtime_end,
                                stations |-> [k \in 1..Len(overtime_info) |->
                                                 overtime_info[k][1]],
                                total_hours |-> max_required_hours(overtime_info),
                                actual_end_time |-> NoTime])]

\* _handle_overtime_end: the overtime schedule is cleared, the session gets
\* its actual end, an overtime task that has not started is CANCELLED
\* (complete_task does not know the id of one that is running).
handle_overtime_end(st, e, now) ==
    [st EXCEPT
        !.current_overtime_schedule = <<>>,
        !.overtime_sessions =
            [k \in 1..Len(@) |->
                IF @[k].session_id = e.session_id
                   THEN [@[k] EXCEPT !.actual_end_time = <<"AT", now>>]
                   ELSE @[k]],
        !.overtime_tasks =
            [i \in DOMAIN @ |->
                IF @[i].status \in {"COMPLETED", "CANCELLED", "IN_PROGRESS"}
                   THEN @[i]
                   ELSE [@[i] EXCEPT !.status = "CANCELLED"]]]

\* _handle_task_start of an overtime task no exception is detected for
\* (_start_task_execution): IN_PROGRESS, its TASK_COMPLETE after the actual
\* duration, which is max_task_duration for a task of an hour or more.
handle_overtime_task_start(st, e, now) ==
    [st EXCEPT
        !.overtime_tasks[e.task_id].status = "IN_PROGRESS",
        !.event_queue =
            heappush(@, OvertimeEvent("TASK_COMPLETE", e.task_id, NoTask, <<>>, <<>>,
                                      now + max_task_duration \div MinutesPerTick,
                                      TaskCompletePriority, st.n_scheduled + 1)),
        !.n_scheduled = @ + 1]

\* _handle_task_complete of an overtime task: COMPLETED, and its station
\* becomes idle now.
handle_overtime_task_complete(st, e, now) ==
    [st EXCEPT
        !.overtime_tasks[e.task_id].status = "COMPLETED",
        !.event_queue =
            heappush(@, OvertimeEvent("STATION_BECOME_IDLE", NoTask, NoTask, <<>>,
                                      <<>>, now, StationIdlePriority,
                                      st.n_scheduled + 1)),
        !.n_scheduled = @ + 1]

\* The handler of an event, on the state the pop left.
overtime_handler(st, e, now, has_schedule) ==
    CASE e.event_type = "RECEIVING_DEADLINE_CHECK" ->
             LET qn == handle_receiving_deadline_check(
                           <<st.event_queue, st.n_scheduled>>, now, st.tasks,
                           workstations)
             IN  [st EXCEPT !.event_queue = qn[1], !.n_scheduled = qn[2]]
      [] e.event_type = "END_OF_DAY_PROCESSING" ->
             LET qn == handle_end_of_day_processing(
                           <<st.event_queue, st.n_scheduled>>, now, st.tasks,
                           workstations)
             IN  [st EXCEPT !.event_queue = qn[1], !.n_scheduled = qn[2]]
      [] e.event_type = "OVERTIME_START" ->
             handle_overtime_start(st, e, now, has_schedule)
      [] e.event_type = "OVERTIME_END" -> handle_overtime_end(st, e, now)
      [] e.event_type = "TASK_START" /\ e.task_id \in DOMAIN st.overtime_tasks ->
             handle_overtime_task_start(st, e, now)
      [] e.event_type = "TASK_COMPLETE" /\ e.task_id \in DOMAIN st.overtime_tasks ->
             handle_overtime_task_complete(st, e, now)
      [] e.event_type = "STATION_BECOME_IDLE" ->
             [st EXCEPT !.idle_times = @ \cup {now}]
      [] OTHER -> st

\* _process_next_event of a run of this part: pop, set the clock, dispatch.
process_overtime_event(has_schedule) ==
    /\ sim_state = "RUNNING"
    /\ event_queue # <<>>
    /\ LET e  == heappop(event_queue)[1]
           st == overtime_handler(
                     [OvertimeState EXCEPT !.event_queue = heappop(event_queue)[2]],
                     e, e.scheduled_time, has_schedule)
       IN  /\ current_time' = e.scheduled_time
           /\ event_queue' = st.event_queue
           /\ n_scheduled' = st.n_scheduled
           /\ tasks' = st.tasks
           /\ overtime_tasks' = st.overtime_tasks
           /\ overtime_sessions' = st.overtime_sessions
           /\ current_overtime_schedule' = st.current_overtime_schedule
           /\ overtime_rows' = st.overtime_rows
           /\ idle_times' = st.idle_times
    /\ UNCHANGED <<sim_state, popped>>
    /\ UNCHANGED <<workstations, pass_done, assignment_results,
                   station_assignments, gap_placements>>
    /\ UNCHANGED <<waves, active_waves, active_exceptions, n_exceptions,
                   available_leaders, busy_leaders, start_scheduled, preempted,
                   denied, completion_checked>>
    /\ UNCHANGED rvars
    /\ UNCHANGED <<overtime_enabled, max_hours_per_day>>
    /\ UNCHANGED pvars
    /\ UNCHANGED dvars

\* The daily events _create_initial_events schedules for the days of the run:
\* a RECEIVING_DEADLINE_CHECK at 10:00, 14:00 and 16:00 and the
\* END_OF_DAY_PROCESSING at 17:00.
RECURSIVE schedule_daily_checks(_, _)
schedule_daily_checks(qn, day) ==
    IF day > LastDay THEN qn
    ELSE LET ev(ty, h, p, k) ==
                 OvertimeEvent(ty, NoTask, NoTask, <<>>, <<>>,
                               day * DayTicks + HM(h, 0), p, qn[2] + k)
             q1 == heappush(qn[1], ev("RECEIVING_DEADLINE_CHECK", 10,
                                      DeadlineCheckPriority, 1))
             q2 == heappush(q1, ev("RECEIVING_DEADLINE_CHECK", 14,
                                   DeadlineCheckPriority, 2))
             q3 == heappush(q2, ev("RECEIVING_DEADLINE_CHECK", 16,
                                   DeadlineCheckPriority, 3))
             q4 == heappush(q3, ev("END_OF_DAY_PROCESSING", EndOfDayHour,
                                   EndOfDayPriority, 4))
         IN  schedule_daily_checks(<<q4, qn[2] + 4>>, day + 1)

create_daily_events ==
    /\ sim_state = "INITIALIZED"
    /\ event_queue = <<>>
    /\ event_queue' = schedule_daily_checks(<<event_queue, n_scheduled>>, 0)[1]
    /\ n_scheduled' = schedule_daily_checks(<<event_queue, n_scheduled>>, 0)[2]
    /\ UNCHANGED <<current_time, sim_state, popped>>
    /\ UNCHANGED avars
    /\ UNCHANGED xvars
    /\ UNCHANGED rvars
    /\ UNCHANGED ovars
    /\ UNCHANGED pvars
    /\ UNCHANGED dvars

\* The staff's max_hours_per_day, in hours: the default, or nine.
MaxHoursInputs == {9, default_max_hours_per_day}

OvertimeInit ==
    /\ EngineInit
    /\ ManagerInit([TaskIds -> OvertimeTaskInputs])
    /\ WaveManagerInit
    /\ ExceptionHandlerInit
    /\ ResultsInit
    /\ OvertimeStateInit({"Y", "N"}, MaxHoursInputs)
    /\ OrderStateInit({NoSchedule})
    /\ LifecycleStateInit({0})

OvertimeNext ==
    \/ create_daily_events
    \/ run_simulation
    \/ \E has_schedule \in BOOLEAN : process_overtime_event(has_schedule)

OvertimeSpec == OvertimeInit /\ [][OvertimeNext]_vars

\* A step that dispatches an OVERTIME_START on a day that has a staff schedule.
OvertimeStarts ==
    /\ event_queue # <<>>
    /\ NextEvent.event_type = "OVERTIME_START"
    /\ process_overtime_event(TRUE)

\* C23: when the OVERTIME_START of a session is dispatched, every task the
\* session was scheduled for has afterwards an overtime variant of priority
\* P1 with the original's floor, type, partcustid, route code and receiving
\* dates, and the original task is CANCELLED.
OvertimeVariantForEveryTask ==
    [][OvertimeStarts
       => \A n \in 1..Len(NextEvent.for_tasks) :
              LET i == NextEvent.for_tasks[n]
              IN  /\ overtime_task_id(i) \in DOMAIN overtime_tasks'
                  /\ overtime_tasks'[overtime_task_id(i)].priority_level = "P1"
                  /\ overtime_tasks'[overtime_task_id(i)].floor = tasks[i].floor
                  /\ overtime_tasks'[overtime_task_id(i)].task_type = tasks[i].task_type
                  /\ overtime_tasks'[overtime_task_id(i)].partcustid = tasks[i].partcustid
                  /\ overtime_tasks'[overtime_task_id(i)].route_code = tasks[i].route_code
                  /\ overtime_tasks'[overtime_task_id(i)].deadline_date
                         = tasks[i].deadline_date
                  /\ tasks'[i].status = "CANCELLED"]_vars

OvertimeWithinDailyLimit ==
    \A n \in 1..Len(overtime_rows) :
        (shift_end_time - shift_start_time) + overtime_rows[n].overtime_hours
            <= max_hours_per_day * TicksPerHour

\* C26: with overtime not enabled no overtime session is recorded, no
\* overtime variant exists and no task is CANCELLED.
NoOvertimeWhenDisabled ==
    overtime_enabled # "Y"
    => /\ overtime_sessions = <<>>
       /\ DOMAIN overtime_tasks = {}
       /\ \A i \in DOMAIN tasks : tasks[i].status # "CANCELLED"

SubWarehouseTaskInputs ==
    {[NewTask("SDTC", fl, "P3", "SHIPPING", 10) EXCEPT !.route_code = "SDTC"] :
        fl \in Floors}
    \cup {[NewTask("SDTC", 2, "P3", "SHIPPING", 10) EXCEPT !.route_code = "R15"],
          [NewTask("PA", 2, "P1", "SHIPPING", 10) EXCEPT !.route_code = "R01"],
          NewTask(NoPartcustid, 2, "P3", "RECEIVING", 10)}

SubWarehouseInit ==
    /\ EngineInit
    /\ ManagerInit([TaskIds -> SubWarehouseTaskInputs])
    /\ WaveManagerInit
    /\ ExceptionHandlerInit
    /\ ResultsInit
    /\ OvertimeStateInit({"Y"}, {default_max_hours_per_day})
    /\ OrderStateInit({NoSchedule})
    /\ LifecycleStateInit({0})

SubWarehouseSpec == SubWarehouseInit /\ [][AssignNext]_vars

\* The tasks a gap-fill stage placed on a station.
GapPlaced == {gap_placements[k].task : k \in 1..Len(gap_placements)}

\* The tasks the pass reported, as assigned, unassigned, in error or needing
\* overtime.
Reported ==
    {assignment_results.assigned[k] : k \in 1..Len(assignment_results.assigned)}
    \cup {assignment_results.unassigned[k] :
             k \in 1..Len(assignment_results.unassigned)}
    \cup {assignment_results.errors[k] : k \in 1..Len(assignment_results.errors)}
    \cup {assignment_results.overtime_required[k] :
             k \in 1..Len(assignment_results.overtime_required)}

\* C28: after a pass a sub-warehouse shipping task has no wave, was not placed
\* by the P1 wave packer, and was handled by a gap-fill stage: placed on a
\* station by it, or reported unassigned when no gap station was left.
SubWarehousePackedInGapFill ==
    pass_done
    => \A n \in 1..Len(sub_warehouse_shipping(tasks)) :
           LET i == sub_warehouse_shipping(tasks)[n]
           IN  /\ tasks[i].assigned_wave = NoWave
               /\ i \notin PackerPlaced
               /\ i \in GapPlaced \cup Reported

\* ---- Part 10: the route schedule, order deadlines and the wave lookup ----

\* A string is the sequence of its characters: a digit is its value, and the
\* decimal point, which sorts before every digit, is Dot.
Dot == -1

\* str(n) of an int
RECURSIVE str(_)
str(n) == IF n < 10 THEN <<n>> ELSE str(n \div 10) \o <<n % 10>>

\* str(x) of a float with an integral value ('855.0')
str_float(n) == str(n) \o <<Dot, 0>>

\* s.zfill(width)
RECURSIVE zfill(_, _)
zfill(s, width) == IF Len(s) >= width THEN s ELSE zfill(<<0>> \o s, width)

\* a <= b on strings
RECURSIVE str_le(_, _)
str_le(a, b) ==
    IF a = <<>> THEN TRUE
    ELSE IF b = <<>> THEN FALSE
    ELSE IF a[1] # b[1] THEN a[1] < b[1]
    ELSE str_le(Tail(a), Tail(b))

\* s.split('.')[0]
RECURSIVE before_dot(_)
before_dot(s) ==
    IF s = <<>> \/ s[1] = Dot THEN <<>> ELSE <<s[1]>> \o before_dot(Tail(s))

\* s.isdigit() and int(s)
isdigit(s) == s # <<>> /\ \A k \in 1..Len(s) : s[k] >= 0

RECURSIVE int_of(_)
int_of(s) == IF s = <<>> THEN 0 ELSE int_of(SubSeq(s, 1, Len(s) - 1)) * 10 + s[Len(s)]

\* datetime.time(hour, minute), as the minutes since midnight; None is NoTime.
time(hour, minute) == <<"AT", hour * 60 + minute>>

\* A cell of a numeric csv column as pandas reads it: a number or NaN.
Num(n) == <<"NUM", n>>
NaN == <<"NAN", 0>>

\* _clean_master_data on a time column: astype(str), 'nan' replaced by ''.
\* pandas reads a column without blanks as int64 ('855') and a column with a
\* blank as float64 ('855.0').
cell_str(cell, column) ==
    IF cell = NaN THEN <<>>
    ELSE IF NaN \in column THEN str_float(cell[2]) ELSE str(cell[2])

clean_master_data(raw) ==
    [k \in 1..Len(raw) |->
        [ROUTECD |-> raw[k].ROUTECD, PARTCUSTID |-> raw[k].PARTCUSTID,
         ORDERENDTIME |-> cell_str(raw[k].ORDERENDTIME,
                                   {raw[j].ORDERENDTIME : j \in 1..Len(raw)}),
         DELIVERTM |-> cell_str(raw[k].DELIVERTM,
                                {raw[j].DELIVERTM : j \in 1..Len(raw)})]]

ScheduleRow(routecd, partcustid, orderendtime, delivertm) ==
    [ROUTECD |-> routecd, PARTCUSTID |-> partcustid,
     ORDERENDTIME |-> orderendtime, DELIVERTM |-> delivertm]

\* route_schedule_master.csv: PA is served at 09:00 (orders until 08:30) and
\* at 14:00 (orders until 13:30), the sub-warehouse customer SDTC on route
\* R15 at 14:00; in the second file a row of PB has no ORDERENDTIME; the
\* third file has the 09:00 row only.
RawSchedules ==
    {<<ScheduleRow("R01", "PA", Num(830), Num(900)),
       ScheduleRow("R01", "PA", Num(1330), Num(1400)),
       ScheduleRow("R15", "SDTC", Num(1330), Num(1400))>>,
     <<ScheduleRow("R01", "PA", Num(830), Num(900)),
       ScheduleRow("R01", "PA", Num(1330), Num(1400)),
       ScheduleRow("R02", "PB", NaN, Num(1400))>>,
     <<ScheduleRow("R01", "PA", Num(830), Num(900))>>}

\* ---- OrderPriorityManager ----

\* params['normal_transcd_list'], ['urgent_transcd_list'], ['sub_warehouse_routes']
normal_transcd == {"1", "2", "4", "5", "7", "9", "C", "D", "E", "F"}
urgent_transcd == {"3", "6", "8", "A"}
sub_warehouse_routes == {"SDTC", "SDHN"}

\* classify_order_priority(order_row): <<priority_level, order_type>>
classify_order_priority(order_row) ==
    IF order_row.ROUTECD \in {"SDTC", "SDHN"} THEN <<"P3", "SUB_WAREHOUSE">>
    ELSE IF order_row.ROUTECD = "R15" /\ order_row.PARTCUSTID = "SDTC"
         THEN <<"P3", "SUB_WAREHOUSE">>
    ELSE IF order_row.ROUTECD = "R16" /\ order_row.PARTCUSTID = "SDHN"
         THEN <<"P3", "SUB_WAREHOUSE">>
    ELSE IF order_row.TRANSCD \in normal_transcd THEN <<"P1", "NORMAL">>
    ELSE IF order_row.TRANSCD \in urgent_transcd THEN <<"P2", "URGENT">>
    ELSE <<"P2", "OTHER">>

\* _parse_time_number(time_value) on a cell of the cleaned schedule
parse_time_number(time_value) ==
    IF time_value = <<>> THEN NoTime
    ELSE LET time_str == before_dot(time_value)
         IN  IF isdigit(time_str)
                   /\ int_of(time_str) \div 100 <= 23 /\ int_of(time_str) % 100 <= 59
                THEN time(int_of(time_str) \div 100, int_of(time_str) % 100)
                ELSE NoTime

\* _calculate_available_minutes(order_time, delivery_time)
calculate_available_minutes(order_time, delivery_time) ==
    IF order_time = NoTime \/ delivery_time = NoTime THEN NoTime
    ELSE IF delivery_time[2] >= order_time[2]
         THEN <<"AT", delivery_time[2] - order_time[2]>>
    ELSE IF order_time[2] - delivery_time[2] > 6 * 60 THEN NoTime
    ELSE IF order_time[2] \div 60 >= 20 /\ delivery_time[2] \div 60 <= 12
         THEN <<"AT", (24 * 60 - order_time[2]) + delivery_time[2]>>
    ELSE NoTime

\* _is_order_late_simple(order_time, order_cutoff)
is_order_late_simple(order_time, order_cutoff) ==
    IF order_time = NoTime \/ order_cutoff = NoTime THEN FALSE
    ELSE order_time[2] > order_cutoff[2]

\* _empty_deadline_result()
empty_deadline_result ==
    [order_cutoff_time |-> NoTime, delivery_time |-> NoTime, order_time |-> NoTime,
     available_minutes |-> NoTime, is_late_order |-> FALSE, schedule_found |-> FALSE]

\* _create_sub_warehouse_deadline_result: delivery 17:00, cutoff 16:30
create_sub_warehouse_deadline_result(order_row) ==
    [order_cutoff_time |-> time(16, 30), delivery_time |-> time(17, 0),
     order_time |-> order_row.TIME,
     available_minutes |-> calculate_available_minutes(order_row.TIME, time(17, 0)),
     is_late_order |-> is_order_late_simple(order_row.TIME, time(16, 30)),
     schedule_found |-> TRUE]

\* calculate_deadline(order_row): a route of sub_warehouse_routes gets the
\* synthesized result; every other order is looked up in the route schedule
\* by ROUTECD and PARTCUSTID.
calculate_deadline(order_row, schedule) ==
    IF order_row.ROUTECD \in sub_warehouse_routes
       THEN create_sub_warehouse_deadline_result(order_row)
    ELSE IF schedule = NoSchedule THEN empty_deadline_result
    ELSE LET matching_schedules ==
                 SelectSeq(schedule,
                           LAMBDA r : /\ r.ROUTECD = order_row.ROUTECD
                                      /\ r.PARTCUSTID = order_row.PARTCUSTID)
             order_cutoff == parse_time_number(matching_schedules[1].ORDERENDTIME)
             delivery_time == parse_time_number(matching_schedules[1].DELIVERTM)
             available_minutes ==
                 calculate_available_minutes(order_row.TIME, delivery_time)
         IN  IF matching_schedules = <<>> THEN empty_deadline_result
             ELSE IF order_row.TIME = NoTime THEN empty_deadline_result
             ELSE IF order_cutoff = NoTime \/ delivery_time = NoTime
                  THEN empty_deadline_result
             ELSE IF available_minutes = NoTime
                  THEN [order_cutoff_time |-> NoTime, delivery_time |-> NoTime,
                        order_time |-> order_row.TIME, available_minutes |-> NoTime,
                        is_late_order |-> TRUE, schedule_found |-> FALSE]
             ELSE [order_cutoff_time |-> order_cutoff, delivery_time |-> delivery_time,
                   order_time |-> order_row.TIME,
                   available_minutes |-> available_minutes,
                   is_late_order |-> is_order_late_simple(order_row.TIME, order_cutoff),
                   schedule_found |-> TRUE]

\* The orders of a day: the sub-warehouse routes and composites, an ordinary
\* route, early and late in the day.
OrderRows ==
    [ROUTECD : {"SDTC", "R15", "R16", "R01"}, PARTCUSTID : {"SDTC", "SDHN", "PA"},
     TRANSCD : {"1", "3"}, TIME : {time(8, 0), time(16, 45)}]

MaxOrders == 1

\* process_orders_batch, one row: the classification and the deadline info.
process_order(order_row) ==
    /\ Len(processed_orders) < MaxOrders
    /\ processed_orders' =
           Append(processed_orders,
                  [order_row |-> order_row,
                   priority_level |-> classify_order_priority(order_row)[1],
                   order_type |-> classify_order_priority(order_row)[2],
                   deadline |-> calculate_deadline(order_row, route_schedule)])
    /\ UNCHANGED <<route_schedule, wave_lookups>>
    /\ UNCHANGED qvars
    /\ UNCHANGED avars
    /\ UNCHANGED xvars
    /\ UNCHANGED rvars
    /\ UNCHANGED ovars
    /\ UNCHANGED dvars

\* ---- WaveManager ----

\* _build_delivery_waves_map: the rows grouped by DELIVERTM; a group's key,
\* zero-filled to four characters, names the wave, and its latest_cutoff is
\* the largest (as a string) of its zero-filled cutoffs, or the delivery time
\* when it has none.
delivery_groups(schedule) ==
    IF schedule = NoSchedule THEN {}
    ELSE {schedule[k].DELIVERTM : k \in 1..Len(schedule)}

latest_cutoff(schedule, delivery_time) ==
    LET cutoff_times ==
            {zfill(schedule[k].ORDERENDTIME, 4) :
                k \in {j \in 1..Len(schedule) :
                          /\ schedule[j].DELIVERTM = delivery_time
                          /\ schedule[j].ORDERENDTIME # <<>>}}
    IN  IF cutoff_times # {}
           THEN CHOOSE c \in cutoff_times : \A d \in cutoff_times : str_le(d, c)
           ELSE zfill(delivery_time, 4)

delivery_waves_map(schedule) ==
    [w \in {zfill(g, 4) : g \in delivery_groups(schedule)} |->
        LET g == CHOOSE g \in delivery_groups(schedule) : zfill(g, 4) = w
        IN  [delivery_time |-> w,
             latest_cutoff |-> latest_cutoff(schedule, g),
             partcustids |-> {schedule[k].PARTCUSTID :
                                 k \in {j \in 1..Len(schedule) :
                                           schedule[j].DELIVERTM = g}}]]

\* partcustid_to_waves[partcustid], as the set of its delivery times
partcustid_to_waves(schedule, partcustid) ==
    {w \in DOMAIN delivery_waves_map(schedule) :
        partcustid \in delivery_waves_map(schedule)[w].partcustids}

\* order_time.strftime('%H%M')
strftime_HM(order_time) ==
    zfill(str((order_time[2] \div 60) * 100 + (order_time[2] % 60)), 4)

\* find_wave_for_partcustid(partcustid, order_time): the delivery time of the
\* wave in the id it returns, None for an unknown partcustid. The waves are
\* tried in sorted order; the first whose latest_cutoff is not below the
\* order time, both as strings, is returned, else the last.
NoWaveFound == <<>>

find_wave_for_partcustid_at(schedule, partcustid, order_time) ==
    LET possible_waves == partcustid_to_waves(schedule, partcustid)
        order_time_str == strftime_HM(order_time)
        caught == {w \in possible_waves :
                      str_le(order_time_str,
                             delivery_waves_map(schedule)[w].latest_cutoff)}
    IN  IF possible_waves = {} THEN NoWaveFound
        ELSE IF caught # {}
             THEN CHOOSE w \in caught : \A v \in caught : str_le(w, v)
        ELSE CHOOSE w \in possible_waves : \A v \in possible_waves : str_le(v, w)

MaxLookups == 1

LookupPartcustids == {"PA", "PB", "PX"}
LookupTimes == {time(8, 0), time(8, 30), time(9, 0), time(13, 30), time(15, 0)}

\* A call of find_wave_for_partcustid with an order time. A WaveManager
\* exists only over a loaded, non-empty schedule (__init__ raises otherwise).
lookup_wave(partcustid, order_time) ==
    /\ route_schedule # NoSchedule
    /\ Len(wave_lookups) < MaxLookups
    /\ wave_lookups' =
           Append(wave_lookups,
                  [partcustid |-> partcustid, order_time |-> order_time,
                   wave |-> find_wave_for_partcustid_at(route_schedule, partcustid,
                                                        order_time)])
    /\ UNCHANGED <<route_schedule, processed_orders>>
    /\ UNCHANGED qvars
    /\ UNCHANGED avars
    /\ UNCHANGED xvars
    /\ UNCHANGED rvars
    /\ UNCHANGED ovars
    /\ UNCHANGED dvars

OrderInit ==
    /\ EngineInit
    /\ ManagerInit({<<>>})
    /\ WaveManagerInit
    /\ ExceptionHandlerInit
    /\ ResultsInit
    /\ OvertimeStateInit({"Y"}, {default_max_hours_per_day})
    /\ OrderStateInit({clean_master_data(raw) : raw \in RawSchedules}
                      \cup {NoSchedule})
    /\ LifecycleStateInit({0})

OrderNext ==
    \/ \E order_row \in OrderRows : process_order(order_row)
    \/ \E partcustid \in LookupPartcustids, order_time \in LookupTimes :
           lookup_wave(partcustid, order_time)

OrderSpec == OrderInit /\ [][OrderNext]_vars

\* C27: every processed order classified SUB_WAREHOUSE has the synthesized
\* delivery time 17:00 and cutoff 16:30 as its deadline info.
SubWarehouseDeadlineSynthesized ==
    \A n \in 1..Len(processed_orders) :
        processed_orders[n].order_type = "SUB_WAREHOUSE"
        => /\ processed_orders[n].deadline.delivery_time = time(17, 0)
           /\ processed_orders[n].deadline.order_cutoff_time = time(16, 30)

\* WaveManager._parse_time_string, the time a wave's string stands for
\* (_create_wave_from_delivery_time builds the wave's times with it).
parse_time_string(time_str) ==
    LET digits == IF isdigit(before_dot(time_str)) THEN zfill(before_dot(time_str), 4)
                  ELSE before_dot(time_str)
    IN  IF Len(digits) = 4 /\ isdigit(digits)
              /\ int_of(SubSeq(digits, 1, 2)) <= 23 /\ int_of(SubSeq(digits, 3, 4)) <= 59
           THEN time(int_of(SubSeq(digits, 1, 2)), int_of(SubSeq(digits, 3, 4)))
           ELSE NoTime

\* The waves of a partcustid an order of a time still catches: the time is
\* not after the wave's latest cutoff.
CatchableWaves(partcustid, order_time) ==
    {w \in partcustid_to_waves(route_schedule, partcustid) :
        order_time[2] <= parse_time_string(
                             delivery_waves_map(route_schedule)[w].latest_cutoff)[2]}

\* C29: a lookup returns the earliest of the partcustid's waves whose latest
\* cutoff is not before the order time, the last wave of the partcustid when
\* there is none, and nothing for a partcustid without waves.
LookupReturnsEarliestCatchableWave ==
    \A n \in 1..Len(wave_lookups) :
        LET pc == wave_lookups[n].partcustid
            t == wave_lookups[n].order_time
            mine == partcustid_to_waves(route_schedule, pc)
            departs(w) == parse_time_string(w)[2]
        IN  IF mine = {} THEN wave_lookups[n].wave = NoWaveFound
            ELSE IF CatchableWaves(pc, t) # {}
                 THEN /\ wave_lookups[n].wave \in CatchableWaves(pc, t)
                      /\ \A v \in CatchableWaves(pc, t) :
                             departs(wave_lookups[n].wave) <= departs(v)
            ELSE /\ wave_lookups[n].wave \in mine
                 /\ \A v \in mine : departs(v) <= departs(wave_lookups[n].wave)

\* ---- Part 11: the end of the day ----

\* The tasks of day 0 at the end of the day: a receiving task due today
\* (arrived two days ago), a sub-warehouse shipping task, one that is
\* COMPLETED, and an ordinary shipping task.
EndOfDayTaskInputs ==
    {receiving_task(2, 60, -2, 0),
     shipping_task("SDTC", "P3", 3, 5),
     [shipping_task("SDHN", "P3", 3, 5) EXCEPT !.status = "COMPLETED"],
     shipping_task("R01", "P1", 2, 5)}

EndOfDayInit ==
    /\ EngineInit
    /\ ManagerInit([TaskIds -> EndOfDayTaskInputs])
    /\ WaveManagerInit
    /\ ExceptionHandlerInit
    /\ ResultsInit
    /\ OvertimeStateInit({"Y"}, {default_max_hours_per_day})
    /\ OrderStateInit({NoSchedule})
    /\ LifecycleStateInit({0})

EndOfDaySpec == EndOfDayInit /\ [][OvertimeNext]_vars

\* A step that dispatches an END_OF_DAY_PROCESSING.
EndOfDayDispatched ==
    /\ event_queue # <<>>
    /\ NextEvent.event_type = "END_OF_DAY_PROCESSING"
    /\ \E has_schedule \in BOOLEAN : process_overtime_event(has_schedule)

\* The tasks the end of the day asks overtime for: the sub-warehouse shipping
\* tasks and the receiving tasks due on `day` that are neither COMPLETED nor
\* CANCELLED.
NeedsEndOfDayOvertime(i, day) ==
    /\ tasks[i].status \notin {"COMPLETED", "CANCELLED"}
    /\ \/ tasks[i].task_type = "SHIPPING" /\ tasks[i].route_code \in {"SDTC", "SDHN"}
       \/ tasks[i].task_type = "RECEIVING" /\ tasks[i].deadline_date = day

HandedToPacker ==
    {i \in TaskIds :
        /\ tasks[i].task_type = "SHIPPING"
        /\ ~is_sub_warehouse(tasks[i])
        /\ tasks[i].priority_level = "P1"
        /\ determine_task_wave_id(tasks[i]) \notin assignment_results.infeasible}

\* C32: after a pass every task handed to the packer is in the assigned or
\* in the unassigned result (or in the errors), and a task the packer found
\* no station for has no station and is in the unassigned result.
UnplacedGroupReportedUnassigned ==
    pass_done
    => \A i \in HandedToPacker :
           /\ i \in Reported
           /\ (\A n \in 1..Len(station_assignments) :
                   \A k \in 1..Len(assignment_tasks(
                                station_assignments[n].assignment.partcustid_groups)) :
                       assignment_tasks(
                           station_assignments[n].assignment.partcustid_groups)[k] # i)
              => /\ tasks[i].assigned_station = NoStation
                 /\ \E k \in 1..Len(assignment_results.unassigned) :
                        assignment_results.unassigned[k] = i

\* ---- Part 13: the life of an engine: initialize_simulation and its runs ----

\* The length of a simulated day in the ticks of part 3, and the seed the
\* what-if analysis passes.
LifecycleDay == 8
WhatIfSeed == 12345

\* How many times initialize_simulation is called.
MaxInits == 2

\* The generator of the module random: its states, the state after a draw,
\* and the duration calculate_actual_duration_with_randomness draws for a task.
RngPeriod == 3
RngStates == 0..(RngPeriod - 1)
rng_after_draw(r) == (r + 1) % RngPeriod
seeded_rng(seed) == seed % RngPeriod
drawn_duration(r) == IF r % 2 = 0 THEN 2 ELSE 3

\* SimulationConfig(start_date, end_date, random_seed): a run over a weekend
\* (no daily event), without receiving and overtime simulation.
SimulationConfig(start_date, end_date, random_seed) ==
    [start_date |-> start_date, end_date |-> end_date,
     random_seed |-> random_seed, set |-> TRUE]

Configs ==
    {SimulationConfig(0, 1, 0), SimulationConfig(0, 1, WhatIfSeed),
     SimulationConfig(1, 1, 0), SimulationConfig(1, 0, 0)}

\* An initialisation that lets every config through.
initialization_never_raises(config) == FALSE

\* The try block of initialize_simulation raises: with a random_seed that is
\* not None and not 0, random.seed is called and the engine does not import
\* random (NameError, after np.random.seed); with a start date that is not
\* before the end date, ValueError.
initialization_raises(config) ==
    \/ config.random_seed # 0
    \/ config.start_date >= config.end_date

\* _create_initial_events(start, end) of such a config: SIMULATION_START,
\* SIMULATION_END and the status update of the one interval of the run.
initial_events(config, n) ==
    heappush(
        heappush(
            heappush(<<>>,
                TypedEvent("SIMULATION_START", NoTask, NoWave,
                           config.start_date * LifecycleDay, SimulationStartPriority,
                           n + 1)),
            TypedEvent("SIMULATION_END", NoTask, NoWave,
                       config.end_date * LifecycleDay, SimulationEndPriority, n + 2)),
        TypedEvent("SYSTEM_STATUS_UPDATE", NoTask, NoWave,
                   config.start_date * LifecycleDay, StatusUpdatePriority, n + 3))

\* The final metrics of a run: the tasks completed, the times the stations
\* became idle and the exceptions left.
FinalMetrics ==
    [completed |-> {i \in DOMAIN tasks : tasks[i].status = "COMPLETED"},
     idle_times |-> idle_times,
     exceptions |-> DOMAIN active_exceptions]

\* initialize_simulation(config): the config is stored and the state set to
\* INITIALIZED; the generators are seeded when the seed is not None or 0;
\* the dates are checked; the clock is set; a new SimulationResults is
\* created; _reset_all_modules resets the exception handler, and nothing
\* else; the queue, the statistics and the overtime sessions are cleared and
\* the initial events created. When the block raises the state is ERROR and
\* the error is appended to the results there are.
\* (run_history, idle_times and n_inits are histories of the model: the run
\* before is filed, and the idle times are those of the run to come.)
initialize_simulation(config) ==
    /\ sim_state # "RUNNING"
    /\ n_inits < MaxInits
    /\ n_inits' = n_inits + 1
    /\ simulation_config' = config
    /\ run_history' =
           IF sim_state = "COMPLETED"
              THEN Append(run_history,
                          [config |-> simulation_config, metrics |-> FinalMetrics])
              ELSE run_history
    /\ IF initialization_raises(config)
          THEN /\ sim_state' = "ERROR"
               /\ results_errors' = IF n_results > 0 THEN results_errors + 1
                                    ELSE results_errors
               /\ UNCHANGED <<event_queue, current_time, n_scheduled, n_results,
                              active_exceptions, available_leaders, busy_leaders,
                              idle_times, overtime_sessions,
                              current_overtime_schedule, should_continue,
                              final_statistics, handler_raised, start_raised>>
          ELSE /\ sim_state' = "INITIALIZED"
               /\ current_time' = config.start_date * LifecycleDay
               /\ n_results' = n_results + 1
               /\ results_errors' = 0
               /\ final_statistics' = 0
               /\ handler_raised' = 0
               /\ start_raised' = FALSE
               /\ active_exceptions' = <<>>
               /\ available_leaders' = [k \in 1..leader_count |-> FirstLeader + k - 1]
               /\ busy_leaders' = {}
               /\ idle_times' = {}
               /\ event_queue' = initial_events(config, n_scheduled)
               /\ n_scheduled' = n_scheduled + 3
               /\ overtime_sessions' = <<>>
               /\ current_overtime_schedule' = <<>>
               /\ UNCHANGED should_continue
    /\ rng' = rng
    /\ UNCHANGED popped
    /\ UNCHANGED avars
    /\ UNCHANGED <<waves, active_waves, n_exceptions, start_scheduled, preempted,
                   denied, completion_checked>>
    /\ UNCHANGED <<overtime_tasks, overtime_rows, overtime_enabled,
                   max_hours_per_day>>
    /\ UNCHANGED pvars

\* create_tasks_from_orders on the orders of the run: a Task per order, filed
\* under the order's id (a task of the same id is replaced).
OrderTasks == [i \in TaskIds |-> NewTask("PA", 2, "P1", "SHIPPING", 10)]
NoOrders == <<>>

create_tasks_from_orders(tk, orders) ==
    [i \in DOMAIN tk \cup DOMAIN orders |->
        IF i \in DOMAIN orders THEN orders[i] ELSE tk[i]]

\* _process_next_event of a run of an engine: SIMULATION_START creates the
\* tasks of the orders (_schedule_task_processing then raises for the first
\* task: the engine does not import random); SIMULATION_END clears
\* should_continue and rolls up the statistics; a TASK_START draws the
\* task's duration from the generator; the other events as in part 3.
\* (pass_done and start_scheduled are histories of the tasks of the run.)
lifecycle_step(orders) ==
    /\ sim_state = "RUNNING"
    /\ should_continue
    /\ event_queue # <<>>
    /\ LET e == heappop(event_queue)[1]
       IN  CASE e.event_type = "SIMULATION_START" ->
                    /\ current_time' = e.scheduled_time
                    /\ event_queue' = heappop(event_queue)[2]
                    /\ tasks' = create_tasks_from_orders(tasks, orders)
                    /\ pass_done' = FALSE
                    /\ start_scheduled' = {}
                    /\ handler_raised' = IF orders # <<>> THEN handler_raised + 1
                                         ELSE handler_raised
                    /\ start_raised' = (orders # <<>>)
                    /\ UNCHANGED <<sim_state, popped, n_scheduled, workstations,
                                   assignment_results, station_assignments,
                                   gap_placements, waves, active_waves,
                                   active_exceptions, n_exceptions,
                                   available_leaders, busy_leaders, idle_times,
                                   preempted, denied, completion_checked,
                                   should_continue, results_errors,
                                   final_statistics, rng>>
                    /\ UNCHANGED ovars
                    /\ UNCHANGED pvars
             [] e.event_type = "SIMULATION_END" ->
                    /\ current_time' = e.scheduled_time
                    /\ event_queue' = heappop(event_queue)[2]
                    /\ should_continue' = FALSE
                    /\ final_statistics' = final_statistics + 1
                    /\ UNCHANGED <<sim_state, popped, n_scheduled, results_errors,
                                   handler_raised, start_raised, rng>>
                    /\ UNCHANGED avars
                    /\ UNCHANGED xvars
                    /\ UNCHANGED ovars
                    /\ UNCHANGED pvars
             [] OTHER ->
                    /\ dispatch_event(<<"NONE", "MEDIUM">>, drawn_duration(rng))
                    /\ rng' = IF e.event_type = "TASK_START" THEN rng_after_draw(rng)
                              ELSE rng
                    /\ UNCHANGED rvars
    /\ UNCHANGED <<simulation_config, run_history, n_inits, n_results>>

LifecycleInit ==
    /\ EngineInit
    /\ ManagerInit({<<>>})
    /\ WaveManagerInit
    /\ ExceptionHandlerInit
    /\ ResultsInit
    /\ OvertimeStateInit({"Y"}, {default_max_hours_per_day})
    /\ OrderStateInit({NoSchedule})
    /\ LifecycleStateInit(RngStates)

\* The handlers of a run act in one order, fixed by the state: the tasks the
\* start handler created are assigned before the next event is dispatched,
\* and the assigned tasks get their TASK_START in the order of their ids.
PassDue == sim_state = "RUNNING" /\ tasks # <<>> /\ ~pass_done

StartDue(i) ==
    /\ sim_state = "RUNNING"
    /\ pass_done
    /\ tasks[i].status = "ASSIGNED"
    /\ i \notin start_scheduled

NextStartDue(i) ==
    /\ StartDue(i)
    /\ \A j \in DOMAIN tasks : j < i => ~StartDue(j)

LifecycleNext ==
    \/ \E config \in Configs : initialize_simulation(config)
    \/ run_simulation
    \/ /\ ~PassDue
       /\ \A i \in DOMAIN tasks : ~StartDue(i)
       /\ lifecycle_step(OrderTasks)
    \/ /\ PassDue
       /\ assign_tasks_to_stations(Stations, TRUE)
    \/ \E i \in DOMAIN tasks : NextStartDue(i) /\ schedule_task_start(i, 0)
    \/ finalize_simulation

LifecycleSpec == LifecycleInit /\ [][LifecycleNext]_vars

ReinitializedEngineIsClean ==
    sim_state = "INITIALIZED"
    => /\ tasks = <<>>
       /\ workstations = [s \in Stations |-> NewWorkStation]
       /\ active_waves = {}
       /\ active_exceptions = <<>>
       /\ \/ event_queue = <<>>
          \/ \E n \in 0..n_scheduled :
                 event_queue = initial_events(simulation_config, n)

\* The engine alone: initialisations and runs without orders.
InitializeNext ==
    \/ \E config \in Configs : initialize_simulation(config)
    \/ run_simulation
    \/ lifecycle_step(NoOrders)
    \/ finalize_simulation

InitializeSpec == LifecycleInit /\ [][InitializeNext]_vars

\* C39: an initialize_simulation whose start date is not before its end date
\* leaves the state ERROR and the queue as it was; in state ERROR no event is
\* dispatched (the clock and the queue stay as they are until an
\* initialisation succeeds); and a run only starts from INITIALIZED.
FailedInitializationBlocksRun ==
    [][/\ \A config \in Configs :
              (config.start_date >= config.end_date /\ initialize_simulation(config))
              => /\ sim_state' = "ERROR"
                 /\ event_queue' = event_queue
       /\ sim_state = "ERROR"
          => \/ sim_state' = "INITIALIZED"
             \/ /\ sim_state' = "ERROR"
                /\ event_queue' = event_queue
                /\ current_time' = current_time
                /\ tasks' = tasks
       /\ (sim_state # "RUNNING" /\ sim_state' = "RUNNING")
          => sim_state = "INITIALIZED"
      ]_vars

\* An initialisation failed on its dates after one that succeeded: the state
\* is ERROR and the events of the earlier config are still queued.
FailedInitializationAfterRun ==
    /\ sim_state = "ERROR"
    /\ simulation_config.start_date >= simulation_config.end_date
    /\ simulation_config.set
    /\ n_results > 0
    /\ event_queue # <<>>

\* ---- Part 14: the leaders of the exception handler ----

\* The leaders _initialize_leaders creates.
Leaders == {FirstLeader + k - 1 : k \in 1..leader_count}

\* The active exceptions a leader is the assigned leader of.
ExceptionsOfLeader(l) ==
    {x \in DOMAIN active_exceptions : active_exceptions[x].assigned_leader = l}

\* C34: the leader pool is conserved: no leader is listed twice in
\* available_leaders, no leader is both available and busy, the available and
\* the busy leaders together are the leaders created, and every busy leader
\* is the assigned leader of exactly one active exception.
LeaderPoolConserved ==
    /\ \A j, k \in DOMAIN available_leaders :
           available_leaders[j] = available_leaders[k] => j = k
    /\ {available_leaders[k] : k \in DOMAIN available_leaders} \cap busy_leaders = {}
    /\ {available_leaders[k] : k \in DOMAIN available_leaders} \cup busy_leaders
           = Leaders
    /\ \A l \in busy_leaders : Cardinality(ExceptionsOfLeader(l)) = 1

\* ---- Part 15: the end of the tasks that were started ----

\* The dispatch runs of part 5 up to their end: the loop is left when the
\* queue is empty and the run is finalized.
TaskStartNext ==
    \/ DispatchNext
    \/ finalize_simulation

TaskStartSpec == Init /\ [][TaskStartNext]_vars

TerminalStatuses == {"COMPLETED", "CANCELLED"}

RequiredTasks(e) ==
    {e.overtime_info[m][2].task_id : m \in 1..Len(e.overtime_info)}

\* C37: every task passed to _schedule_immediate_overtime_for_tasks is named
\* by an entry of the overtime requirements of the OVERTIME_START that is
\* queued for it.
OvertimeRequirementsCoverTasks ==
    \A k \in Queued(event_queue, "OVERTIME_START") :
        \A n \in 1..Len(event_queue[k].for_tasks) :
            event_queue[k].for_tasks[n] \in RequiredTasks(event_queue[k])

\* ---- Part 18: the overtime tasks at the end of their session ----

\* _handle_task_start of an overtime task detect_exceptions returns an
\* exception for: the exception is registered, an EXCEPTION_DETECTED event is
\* scheduled now, and _start_task_execution is not called.
overtime_task_start_detected(detected) ==
    /\ sim_state = "RUNNING"
    /\ event_queue # <<>>
    /\ NextEvent.event_type = "TASK_START"
    /\ NextEvent.task_id \in DOMAIN overtime_tasks
    /\ detected[1] # "NONE"
    /\ LET e   == NextEvent
           now == e.scheduled_time
       IN  /\ current_time' = now
           /\ active_exceptions' =
                  ((n_exceptions + 1) :>
                      NewException(detected[1], detected[2], overtime_tasks,
                                   e.task_id, now))
                  @@ active_exceptions
           /\ n_exceptions' = n_exceptions + 1
           /\ event_queue' =
                  heappush(heappop(event_queue)[2],
                      OvertimeEvent("EXCEPTION_DETECTED", NoTask, NoTask, <<>>, <<>>,
                                    now, ExceptionDetectedPriority, n_scheduled + 1))
           /\ n_scheduled' = n_scheduled + 1
    /\ UNCHANGED <<sim_state, popped>>
    /\ UNCHANGED avars
    /\ UNCHANGED <<waves, active_waves, available_leaders, busy_leaders,
                   start_scheduled, idle_times, preempted, denied,
                   completion_checked>>
    /\ UNCHANGED rvars
    /\ UNCHANGED ovars
    /\ UNCHANGED pvars
    /\ UNCHANGED dvars

\* The runs of part 8 over the tasks of part 11, with the exceptions a
\* TASK_START of an overtime task may detect.
OvertimeEndNext ==
    \/ OvertimeNext
    \/ \E detected \in DispatchDetections : overtime_task_start_detected(detected)

OvertimeEndSpec == EndOfDayInit /\ [][OvertimeEndNext]_vars

\* C38: once the OVERTIME_END of every session that started has been
\* dispatched (each session has its actual end time), every overtime task is
\* COMPLETED.
OvertimeTasksCompletedAtEnd ==
    (/\ overtime_sessions # <<>>
     /\ \A n \in 1..Len(overtime_sessions) :
            overtime_sessions[n].actual_end_time # NoTime)
    => \A i \in DOMAIN overtime_tasks : overtime_tasks[i].status = "COMPLETED"

====
